---- MODULE Spec2Model ----
(***************************************************************************)
(* Discovery-driven dynamic resource access layer of kube-mcp-server       *)
(* (package k8s, type Client): the coordinate cache (getCachedGVR), the    *)
(* watch fan-out (autoRegisterAllInformers), the store-first read path     *)
(* (GetResource, DescribeResource, ListResources) and the write path       *)
(* (CreateOrUpdateResourceYAML, CreateOrUpdateResoureceJSON).              *)
(*                                                                         *)
(* The live cluster is the pair (namespaces, objects).  Every call of the  *)
(* client against the API server is one atomic step of a caller, so that   *)
(* two callers interleave exactly at the API calls.                        *)
(***************************************************************************)
EXTENDS Integers, Sequences, FiniteSets, TLC

VARIABLES
    namespaces,        \* live cluster: names of the existing namespaces
    objects,           \* live cluster: set of objects [gvr, ns, name, app]
    apiResourceCache,  \* Client.apiResourceCache: kind -> coordinate or NoGVR
    resourceCaches,    \* Client.resourceCaches: kind -> store content or NoStore
    informerSynced,    \* Client.informerSynced: kind -> HasSynced() of its informer
    started,           \* dynamicInformerFactory.Start has been called
    calls,             \* per caller: the operation in flight and its local variables
    returned,          \* history: kind -> coordinates getCachedGVR has returned
    discovery,         \* what discoveryClient.ServerPreferredResources answers now
    cacheLock,         \* Client.cacheLock: the caller holding it exclusively, or ""
    watchFailed,       \* kinds whose informer's initial list the API server refuses
    waitResult,        \* what the last WaitForCacheSync returned: "", "true", "false"
    view,              \* the derived-view call in flight (logs, ingresses, API resources)
    server             \* main(): its position, its variables and the registered tools

vars == <<namespaces, objects, apiResourceCache, resourceCaches, informerSynced,
          started, calls, returned, discovery, cacheLock, watchFailed, waitResult,
          view, server>>

\* The callers (goroutines serving tool requests) that run concurrently.
Callers == {"c1", "c2"}

----------------------------------------------------------------------------
(* Discovery content: what ServerPreferredResources answers.               *)

AllVerbs == {"get", "list", "watch", "create", "patch", "delete"}

APIResource(name, kind, namespaced, verbs) ==
    [name |-> name, kind |-> kind, namespaced |-> namespaced, verbs |-> verbs]

\* A GroupVersion string is kept as its "/"-separated segments.
ServerPreferredResources ==
    << [groupVersion |-> <<"v1">>,
        resources |-> << APIResource("events", "Event", TRUE, AllVerbs),
                         APIResource("bindings", "Binding", TRUE, {"create"}),
                         APIResource("componentstatuses", "ComponentStatus", FALSE,
                                     {"get", "list"}) >>],
       [groupVersion |-> <<"apps", "v1">>,
        resources |-> << APIResource("deployments", "Deployment", TRUE, AllVerbs),
                         APIResource("deployments/scale", "Scale", TRUE, {"get", "patch"}),
                         APIResource("statefulsets/scale", "Scale", TRUE, {"get", "patch"}) >>],
       [groupVersion |-> <<"events.k8s.io", "v1">>,
        resources |-> << APIResource("events", "Event", TRUE, AllVerbs) >>] >>

NoGVR == [group |-> "", version |-> "", resource |-> ""]

\* schema.ParseGroupVersion: "v1" -> {"", "v1"}, "g/v" -> {"g", "v"}, else error.
ParseGroupVersion(gv) ==
    CASE Len(gv) = 0 -> [ok |-> TRUE, group |-> "", version |-> ""]
      [] Len(gv) = 1 -> [ok |-> TRUE, group |-> "", version |-> gv[1]]
      [] Len(gv) = 2 -> [ok |-> TRUE, group |-> gv[1], version |-> gv[2]]
      [] OTHER -> [ok |-> FALSE, group |-> "", version |-> ""]

\* The (resourceList, resource) pairs in the order the two nested loops visit
\* them; a list whose GroupVersion does not parse is skipped.
RECURSIVE Flatten(_)
Flatten(lists) ==
    IF lists = <<>> THEN <<>>
    ELSE LET gv == ParseGroupVersion(Head(lists).groupVersion)
             rs == Head(lists).resources
         IN  (IF gv.ok
              THEN [i \in 1..Len(rs) |->
                       [gvr |-> [group |-> gv.group, version |-> gv.version,
                                 resource |-> rs[i].name],
                        kind |-> rs[i].kind,
                        namespaced |-> rs[i].namespaced,
                        verbs |-> rs[i].verbs]]
              ELSE <<>>) \o Flatten(Tail(lists))

\* A plausible slip: one of the two verbs is taken to be enough.
supportsListOrWatchVerbs(verbs) == "list" \in verbs \/ "watch" \in verbs

supportsListAndWatchVerbs(verbs) == "list" \in verbs /\ "watch" \in verbs

Max(S) == CHOOSE x \in S : \A y \in S : y <= x
Min(S) == CHOOSE x \in S : \A y \in S : x <= y

DiscoveredKinds == {Flatten(ServerPreferredResources)[i].kind :
                       i \in DOMAIN Flatten(ServerPreferredResources)}

\* A kind whose CustomResourceDefinition is installed after the client was
\* constructed; served as v1beta1 first, as v1 once the definition is upgraded.
LateKind == "Widget"

LateResources(version) ==
    << [groupVersion |-> <<"example.com", version>>,
        resources |-> << APIResource("widgets", LateKind, TRUE, AllVerbs) >>] >>

\* A kind whose CustomResourceDefinition spells it in lower case (the
\* validation of spec.names.kind looks at the lower-cased string only): as a
\* string it may equal the name of a namespace.
LowercaseKind == "demo"

LowercaseResources ==
    << [groupVersion |-> <<"example.com", "v1">>,
        resources |-> << APIResource("demos", LowercaseKind, TRUE, AllVerbs) >>] >>

\* An answer of ServerPreferredResources: the lists and the error.  err is
\* "none", "group" (ErrGroupDiscoveryFailed: the lists of the groups that
\* answered come with it) or "total" (any other error).
Answer(lists, err) == [lists |-> lists, err |-> err]

NoAnswer == Answer(<<>>, "")

AtStartup == Answer(ServerPreferredResources, "none")

\* The answers the cluster gives over the life of the client: the one at
\* startup, the two with the late kind, the one where the late kind's group
\* fails to answer, and the one where discovery fails altogether.
DiscoveryAnswers ==
    { AtStartup,
      Answer(ServerPreferredResources \o LateResources("v1beta1"), "none"),
      Answer(ServerPreferredResources \o LateResources("v1"), "none"),
      Answer(ServerPreferredResources, "group"),
      Answer(<<>>, "total") }

\* Kind strings a caller may pass: the discovered ones, the late one, an
\* unknown one and a discovered one in another letter case.
UnknownKind == "Gadget"
MiscasedKind == "scale"
Kinds == DiscoveredKinds \cup {LateKind, LowercaseKind, UnknownKind, MiscasedKind}

\* autoRegisterAllInformers: every list+watch resource overwrites the entries
\* of its Kind, so the last such resource in discovery order stays.
WatchedEntries(lists, kind) ==
    {i \in DOMAIN Flatten(lists) :
        /\ Flatten(lists)[i].kind = kind
        /\ supportsListAndWatchVerbs(Flatten(lists)[i].verbs)}

\* A plausible slip: an entry the cache has already is kept, so the first
\* list+watch resource of a Kind stays in the cache.
autoRegisterFirstInformers(lists) ==
    [kind \in Kinds |->
        IF WatchedEntries(lists, kind) = {} THEN NoGVR
        ELSE Flatten(lists)[Min(WatchedEntries(lists, kind))].gvr]

\* autoRegisterAllInformers, the cache side: apiResourceCache[Kind] = &gvr.
autoRegisterAllInformers(lists) ==
    [kind \in Kinds |->
        IF WatchedEntries(lists, kind) = {} THEN NoGVR
        ELSE Flatten(lists)[Max(WatchedEntries(lists, kind))].gvr]

\* A plausible slip: the scan keeps going and the last match wins, as in the
\* fan-out.
ScanDiscoveryLast(lists, kind) ==
    LET hits == {i \in DOMAIN Flatten(lists) : Flatten(lists)[i].kind = kind}
    IN  IF hits = {} THEN NoGVR ELSE Flatten(lists)[Max(hits)].gvr

\* getCachedGVR's scan on a cache miss: the first resource whose Kind equals
\* the input; NoGVR when the scan ends without a match.
ScanDiscovery(lists, kind) ==
    LET hits == {i \in DOMAIN Flatten(lists) : Flatten(lists)[i].kind = kind}
    IN  IF hits = {} THEN NoGVR ELSE Flatten(lists)[Min(hits)].gvr

\* A plausible slip: the entry is built with the Kind where the plural
\* resource name belongs.
CacheInsertKindAsResource(cache, kind, gvr) ==
    [cache EXCEPT ![kind] = [gvr EXCEPT !.resource = kind]]

\* c.apiResourceCache[kind] = gvr, under the exclusive lock.
CacheInsert(cache, kind, gvr) == [cache EXCEPT ![kind] = gvr]

\* Every resource the API server serves at some time.
Served ==
    Flatten(ServerPreferredResources \o LateResources("v1beta1") \o LateResources("v1")
            \o LowercaseResources)

\* item.GetKind() of an object read through a coordinate.
KindOfResource(gvr) ==
    LET hits == {i \in DOMAIN Served : Served[i].gvr = gvr}
    IN  IF hits = {} THEN "" ELSE Served[Min(hits)].kind

\* Whether the resource behind a coordinate is namespaced.
IsNamespaced(gvr) ==
    \E i \in DOMAIN Served : Served[i].gvr = gvr /\ Served[i].namespaced

----------------------------------------------------------------------------
(* The live cluster and the API server's answers.                          *)

DeploymentsGVR == [group |-> "apps", version |-> "v1", resource |-> "deployments"]

EventsGVR == [group |-> "events.k8s.io", version |-> "v1", resource |-> "events"]

WidgetsGVR == [group |-> "example.com", version |-> "v1", resource |-> "widgets"]

DemosGVR == [group |-> "example.com", version |-> "v1", resource |-> "demos"]

\* An object: its coordinate, namespace and name, its label and the
\* restartedAt annotation of its pod template ("" is none).
NoObj == [gvr |-> NoGVR, ns |-> "", name |-> "", app |-> "", restartedAt |-> ""]

Obj(gvr, ns, name, app) ==
    [gvr |-> gvr, ns |-> ns, name |-> name, app |-> app, restartedAt |-> ""]

\* Values of the one label ("app") an object carries; "" is no label.
AppValues == {"", "foo"}

\* Clusters the client may be started against.
InitClusters ==
    {[namespaces |-> {}, objects |-> {}]} \cup
    {[namespaces |-> {"demo"}, objects |-> {}]} \cup
    {[namespaces |-> {"demo"}, objects |-> {Obj(DeploymentsGVR, "demo", "web", a)}] :
        a \in AppValues}

\* Clusters with an object of a workload, of a kind without pod template
\* and of the late kind.
MutateClusters ==
    { [namespaces |-> {}, objects |-> {}],
      [namespaces |-> {"demo"},
       objects |-> {Obj(DeploymentsGVR, "demo", "web", ""),
                    Obj(EventsGVR, "demo", "web", ""),
                    Obj(WidgetsGVR, "demo", "web", "")}] }

Lookup(objs, gvr, ns, name) ==
    {o \in objs : o.gvr = gvr /\ o.ns = ns /\ o.name = name}

\* Namespaces().Get(ctx, namespace): an empty name is refused by the client
\* before any request is sent.
NamespaceGet(nss, ns) ==
    IF ns = "" THEN "invalid"
    ELSE IF ns \in nss THEN "ok" ELSE "notfound"

\* Namespaces().Create(ctx, ns).
NamespaceCreate(nss, ns) ==
    IF ns \in nss THEN [res |-> "exists", namespaces |-> nss]
    ELSE [res |-> "ok", namespaces |-> nss \cup {ns}]

\* A JSON merge patch of the manifest's label onto the stored one: an absent
\* member keeps the value, null removes it, a value replaces it.
MergePatch(old, app) ==
    CASE app = "unset" -> old
      [] app = "null" -> ""
      [] OTHER -> app

\* The label of an object created from the manifest.
Created(app) == IF app \in {"unset", "null"} THEN "" ELSE app

\* dynamicClient.Resource(gvr).Namespace(ns).Patch(name, MergePatchType, body).
\* body carries the manifest as the caller wrote it, its metadata.namespace
\* (mns) included; the API server refuses a patch that moves the object to
\* another namespace.
ApiPatch(objs, gvr, ns, name, mns, app) ==
    LET cur == Lookup(objs, gvr, ns, name)
    IN  IF (IsNamespaced(gvr) /\ ns = "") \/ (~IsNamespaced(gvr) /\ ns # "") \/ cur = {}
        THEN [res |-> "notfound", obj |-> NoObj, objects |-> objs]
        ELSE IF mns # "" /\ mns # ns
        THEN [res |-> "badrequest", obj |-> NoObj, objects |-> objs]
        ELSE LET old == CHOOSE o \in cur : TRUE
                 new == [old EXCEPT !.app = MergePatch(old.app, app)]
             IN  [res |-> "ok", obj |-> new, objects |-> (objs \ cur) \cup {new}]

\* Kinds whose objects have spec.template: the workloads, and the late
\* kind, a workload defined by a CustomResourceDefinition.
HasPodTemplate(gvr) == gvr.resource \in {"deployments", "widgets"}

\* Resources defined by a CustomResourceDefinition.
IsCustomResource(gvr) == gvr.group = "example.com"

\* A patch merged as a JSON merge patch into a schemaless object would be:
\* spec.template is written into every object, whatever its kind.
ApiPatchKeepingUnknownFields(objs, gvr, ns, name, t) ==
    LET cur == Lookup(objs, gvr, ns, name)
    IN  IF (IsNamespaced(gvr) /\ ns = "") \/ (~IsNamespaced(gvr) /\ ns # "") \/ cur = {}
        THEN [res |-> "notfound", obj |-> NoObj, objects |-> objs]
        ELSE LET old == CHOOSE o \in cur : TRUE
                 new == [old EXCEPT !.restartedAt = t]
             IN  [res |-> "ok", obj |-> new, objects |-> (objs \ cur) \cup {new}]

\* dynamicClient.Resource(gvr).Namespace(ns).Patch(name,
\* StrategicMergePatchType, body) with the restartedAt annotation t under
\* spec.template.  The API server accepts no strategic merge patch for a
\* custom resource (415); for a built-in kind it merges the patch and drops
\* what the kind's schema does not have.
ApiStrategicPatch(objs, gvr, ns, name, t) ==
    LET cur == Lookup(objs, gvr, ns, name)
    IN  IF IsCustomResource(gvr)
        THEN [res |-> "unsupportedmediatype", obj |-> NoObj, objects |-> objs]
        ELSE IF (IsNamespaced(gvr) /\ ns = "") \/ (~IsNamespaced(gvr) /\ ns # "") \/ cur = {}
        THEN [res |-> "notfound", obj |-> NoObj, objects |-> objs]
        ELSE LET old == CHOOSE o \in cur : TRUE
                 new == IF HasPodTemplate(gvr) THEN [old EXCEPT !.restartedAt = t] ELSE old
             IN  [res |-> "ok", obj |-> new, objects |-> (objs \ cur) \cup {new}]

\* dynamicClient.Resource(gvr)[.Namespace(ns)].Delete(name).
ApiDelete(objs, gvr, ns, name) ==
    LET cur == Lookup(objs, gvr, ns, name)
    IN  IF cur = {} THEN [res |-> "notfound", objects |-> objs]
        ELSE [res |-> "ok", objects |-> objs \ cur]

\* dynamicClient.Resource(gvr).Namespace(ns).Create(obj).
ApiCreate(objs, nss, gvr, ns, name, app) ==
    IF (IsNamespaced(gvr) /\ ns = "") \/ (~IsNamespaced(gvr) /\ ns # "")
    THEN [res |-> "notallowed", obj |-> NoObj, objects |-> objs]
    ELSE IF IsNamespaced(gvr) /\ ns \notin nss
    THEN [res |-> "notfound", obj |-> NoObj, objects |-> objs]
    ELSE IF Lookup(objs, gvr, ns, name) # {}
    THEN [res |-> "exists", obj |-> NoObj, objects |-> objs]
    ELSE LET new == Obj(gvr, ns, name, Created(app))
         IN  [res |-> "ok", obj |-> new, objects |-> objs \cup {new}]

\* dynamicClient.Resource(gvr)[.Namespace(ns)].Get(name).
ApiGet(objs, gvr, ns, name) ==
    LET cur == Lookup(objs, gvr, ns, name)
    IN  IF cur = {} THEN [res |-> "notfound", obj |-> NoObj]
        ELSE [res |-> "ok", obj |-> CHOOSE o \in cur : TRUE]

\* A selector is <<>> (none) or <<key, value>>.
LabelMatches(o, sel) == sel = <<>> \/ (sel[1] = "app" /\ o.app = sel[2])
FieldMatches(o, fsel) == fsel = <<>> \/ (fsel[1] = "metadata.name" /\ o.name = fsel[2])

\* dynamicClient.Resource(gvr)[.Namespace(ns)].List(options): the server
\* evaluates both selectors.
ApiList(objs, gvr, ns, sel, fsel) ==
    {o \in objs : /\ o.gvr = gvr
                  /\ (ns = "" \/ o.ns = ns)
                  /\ LabelMatches(o, sel)
                  /\ FieldMatches(o, fsel)}

----------------------------------------------------------------------------
(* Resource stores and the read path's cache side.                         *)

\* A store: whether the kind has one, the coordinate its informer was built
\* for, and the objects it holds.
NoStore == [exists |-> FALSE, gvr |-> NoGVR, items |-> {}]

\* autoRegisterAllInformers, the store side: in the order of the two nested
\* loops, every list+watch resource puts the store of ForResource(gvr) under
\* its Kind.
RECURSIVE RegisterStores(_, _)
RegisterStores(entries, stores) ==
    IF entries = <<>> THEN stores
    ELSE LET e == Head(entries)
         IN  RegisterStores(Tail(entries),
                 IF supportsListAndWatchVerbs(e.verbs)
                 THEN [stores EXCEPT ![e.kind] =
                          [exists |-> TRUE, gvr |-> e.gvr, items |-> {}]]
                 ELSE stores)

\* cache.MetaNamespaceKeyFunc, the key under which an informer's store
\* indexes an object: "namespace/name", or "name" when it has no namespace.
StoreKey(o) == IF o.ns # "" THEN <<o.ns, o.name>> ELSE <<o.name>>

\* getResourceCacheKey: "kind/namespace/name", or "kind/name".
getResourceCacheKey(kind, ns, name) ==
    IF ns # "" THEN <<kind, ns, name>> ELSE <<kind, name>>

GetByKey(store, key) == {o \in store.items : StoreKey(o) = key}

\* getResourceFromCache: (object, found).
getResourceFromCache(caches, kind, ns, name) ==
    LET cacheKey == getResourceCacheKey(kind, ns, name)
        got == IF caches[kind].exists THEN GetByKey(caches[kind], cacheKey) ELSE {}
    IN  IF got # {} THEN [found |-> TRUE, obj |-> CHOOSE o \in got : TRUE]
        ELSE [found |-> FALSE, obj |-> NoObj]

\* The store holds an object of this namespace and name.
Holds(store, ns, name) == \E o \in store.items : o.ns = ns /\ o.name = name

Projection(o, kind) == [name |-> o.name, kind |-> kind, namespace |-> o.ns, lables |-> o.app]

\* A plausible slip: the namespace filter is left out.
listResourcesFromCacheAnyNamespace(caches, kind, ns, sel, fsel) ==
    IF caches[kind].exists
    THEN LET kept == caches[kind].items
         IN  IF kept # {} /\ (sel # <<>> \/ fsel # <<>>)
             THEN [found |-> FALSE, list |-> {}]
             ELSE [found |-> TRUE, list |-> {Projection(o, kind) : o \in kept}]
    ELSE [found |-> FALSE, list |-> {}]

\* listResourcesFromCache: (projections, found).  The selector test sits
\* inside the loop, behind the namespace filter.
listResourcesFromCache(caches, kind, ns, sel, fsel) ==
    IF caches[kind].exists
    THEN LET kept == {o \in caches[kind].items : ~(ns # "" /\ o.ns # ns)}
         IN  IF kept # {} /\ (sel # <<>> \/ fsel # <<>>)
             THEN [found |-> FALSE, list |-> {}]
             ELSE [found |-> TRUE, list |-> {Projection(o, kind) : o \in kept}]
    ELSE [found |-> FALSE, list |-> {}]

----------------------------------------------------------------------------
(* Callers.                                                                *)

NoSnap == [namespaces |-> {}, objects |-> {}]

\* A caller's frame: the operation, its arguments, its locals, the API
\* calls it has issued so far (api) and its return values (err, obj, list).
\* err is "" while the operation runs and "none" for a nil error.  For a
\* repeated upsert, first is the first call's err and snap the cluster it
\* left; quiet tells whether no other caller has written to the cluster
\* since the upsert, or the first of the two, began.
\* held records, for a get, whether the kind's store held an object of the
\* requested namespace and name when the cache was consulted.
\* seen is the answer getCachedGVR got from its discovery call; cold tells,
\* for a read, whether the kind's watch had already failed when it began.
\* target is, for a rollout restart, the object as the API server held it
\* when the patch was sent.
\* cancelled tells whether the ctx the operation was called with is done.
Idle == [pc |-> "idle", op |-> "", kind |-> "", ns |-> "", name |-> "",
         mns |-> "", app |-> "", sel |-> <<>>, fsel |-> <<>>,
         gvr |-> NoGVR, hit |-> FALSE, api |-> <<>>, src |-> "",
         err |-> "", obj |-> NoObj, list |-> {},
         first |-> "", snap |-> NoSnap, quiet |-> FALSE, held |-> FALSE,
         seen |-> NoAnswer, cold |-> FALSE, target |-> NoObj,
         cancelled |-> FALSE, locks |-> <<>>]

Upserts == {"UpsertYAML", "UpsertJSON"}

\* Arguments the callers draw from.
NamespaceArgs == {"", "demo"}
NameArgs == {"web", "missing-pod"}
ManifestNames == {"", "web"}
ManifestNamespaces == {"", "demo", "other"}
ManifestApps == {"unset", "foo"}
LabelSelectors == {<<>>, <<"app", "foo">>}
FieldSelectors == {<<>>, <<"metadata.name", "db">>}
UpsertKinds == {"Deployment", UnknownKind}
ReadKinds == {"Deployment", UnknownKind}
ResolveKinds == {"Scale", "Event", UnknownKind}

\* The two sync.RWMutex of the client.  A call's frame logs the operations it
\* performs on them, in order.
Mutexes == {"cacheLock", "informerLock"}

LockOp(c, lock, op) == [c EXCEPT !.locks = Append(@, <<lock, op>>)]

\* How many acquisitions of the lock a log leaves without their release.
Holding(log, lock) ==
    Cardinality({i \in DOMAIN log : log[i] \in {<<lock, "RLock">>, <<lock, "Lock">>}})
    - Cardinality({i \in DOMAIN log : log[i] \in {<<lock, "RUnlock">>, <<lock, "Unlock">>}})

\* A plausible slip: the deferred RUnlock() is left out.
StoreReadWithoutDefer(c) == LockOp(c, "informerLock", "RLock")

\* informerLock.RLock() with the deferred RUnlock() of a store read.
StoreRead(c) == LockOp(LockOp(c, "informerLock", "RLock"), "informerLock", "RUnlock")

Issued(c, call, res) == Append(c.api, [call |-> call, res |-> res])

Done(c, err) == [c EXCEPT !.pc = "done", !.err = err]

\* Another caller wrote to the cluster: repeated upserts in flight are no
\* longer "in sequence".
Disturb(cs, p) ==
    [q \in Callers |-> IF q = p THEN cs[q] ELSE [cs[q] EXCEPT !.quiet = FALSE]]

\* The frame of a derived-view call.  For GetPodsLogs: the arguments
\* (container, tail), the TailLines of the options, the containers of the
\* pod as the API server returned them, the loop index, the stream requests
\* made so far (reqs), what each of them answered (answers) and the string
\* built so far as the sequence of its pieces (out).  For GetIngresses: the
\* host argument, the ingresses the call iterated over (items), where they
\* came from (src) and the returned list.  For GetAPIResources: the two
\* flags, the discovery answer the call saw and the returned resources.
IdleView ==
    [pc |-> "idle", op |-> "", err |-> "",
     container |-> "", tail |-> 0, tailLines |-> 0, pod |-> <<>>, i |-> 0,
     reqs |-> <<>>, answers |-> <<>>, out |-> <<>>,
     host |-> "", items |-> {}, src |-> "", list |-> {},
     includeNamespaceScoped |-> FALSE, includeClusterScoped |-> FALSE,
     seen |-> NoAnswer, resources |-> <<>>, locks |-> <<>>,
     namespace |-> "", labelSelector |-> <<>>]

\* A command line and an environment that set nothing.
NoArgs ==
    [safeMode |-> "unset", enablePrometheus |-> "unset", enableLoki |-> "unset",
     prometheusURL |-> "unset", envPrometheusURL |-> "unset", lokiURL |-> "unset"]

\* main after NewClient: its variables hold their zero values.
Booting(args) ==
    [pc |-> "clients", args |-> args,
     safeMod |-> FALSE, enablePrometheus |-> FALSE, enableLoki |-> FALSE,
     prometheusURL |-> "", lokiURL |-> "",
     promClient |-> "nil", lokiClient |-> "nil", tools |-> {}]

\* The client as NewClient returns it, against cluster cl whose discovery
\* answered lists during the fan-out; now is what discovery answers at present.
ConstructedFrom(cl, lists, now) ==
    /\ namespaces = cl.namespaces /\ objects = cl.objects
    /\ apiResourceCache = autoRegisterAllInformers(lists)
    /\ resourceCaches = RegisterStores(Flatten(lists), [kind \in Kinds |-> NoStore])
    /\ informerSynced = [kind \in Kinds |-> FALSE]
    /\ started = FALSE
    /\ calls = [p \in Callers |-> Idle]
    /\ returned = [kind \in Kinds |-> {}]
    /\ discovery = now
    /\ cacheLock = ""
    /\ watchFailed = {}
    /\ waitResult = ""
    /\ view = IdleView

Constructed(cl, now) == ConstructedFrom(cl, ServerPreferredResources, now)

Init ==
    /\ \E cl \in InitClusters : Constructed(cl, AtStartup)
    /\ server = Booting(NoArgs)

\* The client some time after its construction: the late kind's
\* CustomResourceDefinition has been installed since.
InitLate ==
    /\ \E cl \in MutateClusters :
          Constructed(cl, Answer(ServerPreferredResources \o LateResources("v1"), "none"))
    /\ server = Booting(NoArgs)

\* A direct call of getCachedGVR(kind).
BeginResolve(p, kind) ==
    /\ calls[p].pc = "idle"
    /\ calls' = [calls EXCEPT ![p] = [Idle EXCEPT !.pc = "resolve", !.op = "Resolve",
                                                  !.kind = kind]]
    /\ UNCHANGED <<namespaces, objects, apiResourceCache, resourceCaches,
                   informerSynced, started, returned>>
    /\ UNCHANGED <<discovery, cacheLock, watchFailed, waitResult>>
    /\ UNCHANGED <<view, server>>

\* GetResource / DescribeResource up to the cache lookup.
BeginGet(p, op, kind, ns, name) ==
    /\ calls[p].pc = "idle"
    /\ LET c == [Idle EXCEPT !.op = op, !.kind = kind, !.ns = ns, !.name = name,
                             !.held = Holds(resourceCaches[kind], ns, name),
                             !.cold = kind \in watchFailed]
           got == getResourceFromCache(resourceCaches, kind, ns, name)
       IN  calls' = [calls EXCEPT ![p] =
                        IF got.found
                        THEN [Done(StoreRead(c), "none") EXCEPT !.src = "store",
                                                                !.obj = got.obj]
                        ELSE [StoreRead(c) EXCEPT !.pc = "resolve"]]
    /\ UNCHANGED <<namespaces, objects, apiResourceCache, resourceCaches,
                   informerSynced, started, returned>>
    /\ UNCHANGED <<discovery, cacheLock, watchFailed, waitResult>>
    /\ UNCHANGED <<view, server>>

\* ListResources up to the cache lookup.
BeginList(p, kind, ns, sel, fsel) ==
    /\ calls[p].pc = "idle"
    /\ LET c == [Idle EXCEPT !.op = "List", !.kind = kind, !.ns = ns,
                             !.sel = sel, !.fsel = fsel,
                             !.cold = kind \in watchFailed]
           got == listResourcesFromCache(resourceCaches, kind, ns, sel, fsel)
       IN  calls' = [calls EXCEPT ![p] =
                        IF got.found
                        THEN [Done(StoreRead(c), "none") EXCEPT !.src = "store",
                                                                !.list = got.list]
                        ELSE [StoreRead(c) EXCEPT !.pc = "resolve"]]
    /\ UNCHANGED <<namespaces, objects, apiResourceCache, resourceCaches,
                   informerSynced, started, returned>>
    /\ UNCHANGED <<discovery, cacheLock, watchFailed, waitResult>>
    /\ UNCHANGED <<view, server>>

\* CreateOrUpdateResourceYAML / CreateOrUpdateResoureceJSON up to the call of
\* getCachedGVR; the manifest is {metadata: {name, namespace: mns, labels: app}}.
BeginUpsert(p, op, kind, ns, name, mns, app) ==
    /\ calls[p].pc = "idle"
    /\ calls' = [calls EXCEPT ![p] =
                    [Idle EXCEPT !.pc = "resolve", !.op = op, !.kind = kind, !.ns = ns,
                                 !.name = name, !.mns = mns, !.app = app,
                                 !.quiet = TRUE]]
    /\ UNCHANGED <<namespaces, objects, apiResourceCache, resourceCaches,
                   informerSynced, started, returned>>
    /\ UNCHANGED <<discovery, cacheLock, watchFailed, waitResult>>
    /\ UNCHANGED <<view, server>>

\* What each operation does with the coordinate getCachedGVR returned.  The
\* JSON upsert returns (nil, nil) here: its test reads err == nil.
AfterResolve(c, gvr, hit) ==
    LET d == [c EXCEPT !.gvr = gvr, !.hit = hit]
    IN  CASE c.op = "Resolve" -> Done(d, "none")
          [] c.op \in {"Get", "Describe"} -> [d EXCEPT !.pc = "liveGet"]
          [] c.op = "List" -> [d EXCEPT !.pc = "liveList"]
          [] c.op = "UpsertYAML" -> [d EXCEPT !.pc = "nsGet"]
          [] c.op = "UpsertJSON" -> Done(d, "none")
          [] c.op = "Delete" -> [d EXCEPT !.pc = "delete"]
          [] c.op = "Rollout" -> [d EXCEPT !.pc = "rollout"]

\* What each operation does when getCachedGVR returned an error.  The JSON
\* upsert goes on with a nil coordinate.
ResolveFailed(c, err) ==
    IF c.op = "UpsertJSON" THEN [c EXCEPT !.pc = "nsGet"]
    ELSE Done(c, err)

\* getCachedGVR with the shared lock kept over the discovery call, as a
\* deferred RUnlock would keep it.
ResolveDeferringUnlock(p) ==
    /\ calls[p].pc = "resolve"
    /\ cacheLock = ""
    /\ LET c == LockOp(calls[p], "cacheLock", "RLock")
           gvr == apiResourceCache[c.kind]
       IN  IF gvr # NoGVR
           THEN /\ calls' = [calls EXCEPT ![p] =
                                AfterResolve(LockOp(c, "cacheLock", "RUnlock"), gvr, TRUE)]
                /\ returned' = [returned EXCEPT ![c.kind] = @ \cup {gvr}]
           ELSE /\ calls' = [calls EXCEPT ![p] = [c EXCEPT !.pc = "discover"]]
                /\ UNCHANGED returned
    /\ UNCHANGED <<namespaces, objects, apiResourceCache, resourceCaches,
                   informerSynced, started>>
    /\ UNCHANGED <<discovery, cacheLock, watchFailed, waitResult>>
    /\ UNCHANGED <<view, server>>

\* getCachedGVR, the cache lookup under the shared lock: RLock waits while
\* another caller holds the lock exclusively, and RUnlock comes before either
\* exit, the hit's return and the miss's discovery call.
Resolve(p) ==
    /\ calls[p].pc = "resolve"
    /\ cacheLock = ""
    /\ LET c == LockOp(LockOp(calls[p], "cacheLock", "RLock"), "cacheLock", "RUnlock")
           gvr == apiResourceCache[c.kind]
       IN  IF gvr # NoGVR
           THEN /\ calls' = [calls EXCEPT ![p] = AfterResolve(c, gvr, TRUE)]
                /\ returned' = [returned EXCEPT ![c.kind] = @ \cup {gvr}]
           ELSE /\ calls' = [calls EXCEPT ![p] = [c EXCEPT !.pc = "discover"]]
                /\ UNCHANGED returned
    /\ UNCHANGED <<namespaces, objects, apiResourceCache, resourceCaches,
                   informerSynced, started>>
    /\ UNCHANGED <<discovery, cacheLock, watchFailed, waitResult>>
    /\ UNCHANGED <<view, server>>

\* getCachedGVR on a miss: the discovery call and the scan of its answer.
\* Only an error other than ErrGroupDiscoveryFailed ends the call; with that
\* one the lists that came along are scanned.
Discover(p) ==
    /\ calls[p].pc = "discover"
    /\ LET c == [calls[p] EXCEPT !.seen = discovery]
           gvr == ScanDiscovery(discovery.lists, c.kind)
       IN  calls' = [calls EXCEPT ![p] =
                        IF discovery.err = "total"
                        THEN ResolveFailed(c, "discoveryunavailable")
                        ELSE IF gvr # NoGVR
                        THEN [c EXCEPT !.gvr = gvr, !.pc = "lock"]
                        ELSE ResolveFailed(c, "kindnotfound")]
    /\ UNCHANGED <<namespaces, objects, apiResourceCache, resourceCaches,
                   informerSynced, started, returned>>
    /\ UNCHANGED <<discovery, cacheLock, watchFailed, waitResult>>
    /\ UNCHANGED <<view, server>>

\* getCachedGVR on a match: c.cacheLock.Lock().
Lock(p) ==
    /\ calls[p].pc = "lock"
    /\ cacheLock = ""
    /\ \A q \in Callers : Holding(calls[q].locks, "cacheLock") = 0
    /\ cacheLock' = p
    /\ calls' = [calls EXCEPT ![p] = [LockOp(calls[p], "cacheLock", "Lock")
                                         EXCEPT !.pc = "insert"]]
    /\ UNCHANGED <<namespaces, objects, apiResourceCache, resourceCaches,
                   informerSynced, started, returned>>
    /\ UNCHANGED <<discovery, watchFailed, waitResult>>
    /\ UNCHANGED <<view, server>>

\* getCachedGVR on a match: the insertion, Unlock and the return.
Insert(p) ==
    /\ calls[p].pc = "insert"
    /\ LET c == LockOp(calls[p], "cacheLock", "Unlock")
       IN  /\ apiResourceCache' = CacheInsert(apiResourceCache, c.kind, c.gvr)
           /\ calls' = [calls EXCEPT ![p] = AfterResolve(c, c.gvr, FALSE)]
           /\ returned' = [returned EXCEPT ![c.kind] = @ \cup {c.gvr}]
    /\ cacheLock' = ""
    /\ UNCHANGED <<namespaces, objects, resourceCaches, informerSynced, started>>
    /\ UNCHANGED <<discovery, watchFailed, waitResult>>
    /\ UNCHANGED <<view, server>>

\* The cluster's discovery content changes: a CustomResourceDefinition is
\* installed or upgraded, an aggregated group stops or resumes answering.
DiscoveryChanges ==
    /\ \E a \in DiscoveryAnswers \ {discovery} : discovery' = a
    /\ UNCHANGED <<namespaces, objects, apiResourceCache, resourceCaches,
                   informerSynced, started, calls, returned>>
    /\ UNCHANGED <<cacheLock, watchFailed, waitResult>>
    /\ UNCHANGED <<view, server>>

\* Upsert: Namespaces().Get(ctx, namespace).  Only not-found leads to the
\* create; any other answer, an error included, falls through.
NsGet(p) ==
    /\ calls[p].pc = "nsGet"
    /\ ~calls[p].cancelled
    /\ LET c == calls[p]
           res == NamespaceGet(namespaces, c.ns)
       IN  calls' = [calls EXCEPT ![p] =
                        [c EXCEPT !.api = Issued(c, "nsGet", res),
                                  !.pc = IF res = "notfound" THEN "nsCreate" ELSE "patch"]]
    /\ UNCHANGED <<namespaces, objects, apiResourceCache, resourceCaches,
                   informerSynced, started, returned>>
    /\ UNCHANGED <<discovery, cacheLock, watchFailed, waitResult>>
    /\ UNCHANGED <<view, server>>

\* Upsert: Namespaces().Create(ctx, namespace); any error ends the call.
NsCreate(p) ==
    /\ calls[p].pc = "nsCreate"
    /\ ~calls[p].cancelled
    /\ LET c == calls[p]
           r == NamespaceCreate(namespaces, c.ns)
           d == [c EXCEPT !.api = Issued(c, "nsCreate", r.res)]
       IN  /\ namespaces' = r.namespaces
           /\ calls' = IF r.res = "ok"
                       THEN Disturb([calls EXCEPT ![p] = [d EXCEPT !.pc = "patch"]], p)
                       ELSE [calls EXCEPT ![p] = Done(d, "upstream")]
    /\ UNCHANGED <<objects, apiResourceCache, resourceCaches, informerSynced,
                   started, returned>>
    /\ UNCHANGED <<discovery, cacheLock, watchFailed, waitResult>>
    /\ UNCHANGED <<view, server>>

\* The namespace the object is written into: the JSON variant always sets
\* the parameter, the YAML variant only a non-empty one.
TargetNamespace(c) ==
    IF c.op = "UpsertJSON" THEN c.ns
    ELSE IF c.ns # "" THEN c.ns ELSE c.mns

\* A plausible slip: every error of the patch leads to the create.
PatchCreatingOnError(p) ==
    /\ calls[p].pc = "patch"
    /\ ~calls[p].cancelled
    /\ LET c == calls[p]
           r == ApiPatch(objects, c.gvr, TargetNamespace(c), c.name, c.mns, c.app)
           d == [c EXCEPT !.api = Issued(c, "patch", r.res)]
       IN  IF c.name = ""
           THEN /\ calls' = [calls EXCEPT ![p] = Done(c, "invalid")]
                /\ UNCHANGED objects
           ELSE IF c.gvr = NoGVR
           THEN /\ calls' = [calls EXCEPT ![p] = Done(c, "panic")]
                /\ UNCHANGED objects
           ELSE /\ objects' = r.objects
                /\ calls' =
                     CASE r.res = "ok" ->
                            Disturb([calls EXCEPT ![p] = [Done(d, "none") EXCEPT !.obj = r.obj]], p)
                       [] r.res = "notfound" ->
                            [calls EXCEPT ![p] = [d EXCEPT !.pc = "create"]]
                       [] OTHER ->
                            [calls EXCEPT ![p] = [d EXCEPT !.pc = "create"]]
    /\ UNCHANGED <<namespaces, apiResourceCache, resourceCaches, informerSynced,
                   started, returned>>
    /\ UNCHANGED <<discovery, cacheLock, watchFailed, waitResult>>
    /\ UNCHANGED <<view, server>>

\* Upsert: the name test, then Resource(*gvr).Namespace(..).Patch(..).
\* Dereferencing a nil coordinate panics.  The YAML variant creates on
\* not-found and returns every other error; the JSON variant creates on
\* not-found and otherwise dereferences the result whatever err is.
Patch(p) ==
    /\ calls[p].pc = "patch"
    /\ ~calls[p].cancelled
    /\ LET c == calls[p]
           r == ApiPatch(objects, c.gvr, TargetNamespace(c), c.name, c.mns, c.app)
           d == [c EXCEPT !.api = Issued(c, "patch", r.res)]
       IN  IF c.name = ""
           THEN /\ calls' = [calls EXCEPT ![p] = Done(c, "invalid")]
                /\ UNCHANGED objects
           ELSE IF c.gvr = NoGVR
           THEN /\ calls' = [calls EXCEPT ![p] = Done(c, "panic")]
                /\ UNCHANGED objects
           ELSE /\ objects' = r.objects
                /\ calls' =
                     CASE r.res = "ok" ->
                            Disturb([calls EXCEPT ![p] = [Done(d, "none") EXCEPT !.obj = r.obj]], p)
                       [] r.res = "notfound" ->
                            [calls EXCEPT ![p] = [d EXCEPT !.pc = "create"]]
                       [] OTHER ->
                            [calls EXCEPT ![p] =
                                Done(d, IF c.op = "UpsertYAML" THEN "upstream" ELSE "panic")]
    /\ UNCHANGED <<namespaces, apiResourceCache, resourceCaches, informerSynced,
                   started, returned>>
    /\ UNCHANGED <<discovery, cacheLock, watchFailed, waitResult>>
    /\ UNCHANGED <<view, server>>

\* Upsert: Resource(*gvr).Namespace(..).Create(obj) after a not-found patch.
Create(p) ==
    /\ calls[p].pc = "create"
    /\ ~calls[p].cancelled
    /\ LET c == calls[p]
           r == ApiCreate(objects, namespaces, c.gvr, TargetNamespace(c), c.name, c.app)
           d == [c EXCEPT !.api = Issued(c, "create", r.res)]
       IN  /\ objects' = r.objects
           /\ calls' = IF r.res = "ok"
                       THEN Disturb([calls EXCEPT ![p] = [Done(d, "none") EXCEPT !.obj = r.obj]], p)
                       ELSE [calls EXCEPT ![p] = Done(d, "upstream")]
    /\ UNCHANGED <<namespaces, apiResourceCache, resourceCaches, informerSynced,
                   started, returned>>
    /\ UNCHANGED <<discovery, cacheLock, watchFailed, waitResult>>
    /\ UNCHANGED <<view, server>>

\* GetResource / DescribeResource: the live get.  DescribeResource tests err
\* only in its namespaced branch and dereferences the nil object otherwise.
LiveGet(p) ==
    /\ calls[p].pc = "liveGet"
    /\ ~calls[p].cancelled
    /\ LET c == calls[p]
           r == ApiGet(objects, c.gvr, c.ns, c.name)
           d == [c EXCEPT !.api = Issued(c, "get", r.res), !.src = "live"]
       IN  calls' = [calls EXCEPT ![p] =
                        IF r.res = "ok" THEN [Done(d, "none") EXCEPT !.obj = r.obj]
                        ELSE IF c.op = "Describe" /\ c.ns = "" THEN Done(d, "panic")
                        ELSE Done(d, "notfound")]
    /\ UNCHANGED <<namespaces, objects, apiResourceCache, resourceCaches,
                   informerSynced, started, returned>>
    /\ UNCHANGED <<discovery, cacheLock, watchFailed, waitResult>>
    /\ UNCHANGED <<view, server>>

\* ListResources: the live list with both selectors.
LiveList(p) ==
    /\ calls[p].pc = "liveList"
    /\ ~calls[p].cancelled
    /\ LET c == calls[p]
           items == ApiList(objects, c.gvr, c.ns, c.sel, c.fsel)
           d == [c EXCEPT !.api = Issued(c, "list", "ok"), !.src = "live"]
       IN  calls' = [calls EXCEPT ![p] =
                        [Done(d, "none") EXCEPT
                            !.list = {Projection(o, KindOfResource(o.gvr)) : o \in items}]]
    /\ UNCHANGED <<namespaces, objects, apiResourceCache, resourceCaches,
                   informerSynced, started, returned>>
    /\ UNCHANGED <<discovery, cacheLock, watchFailed, waitResult>>
    /\ UNCHANGED <<view, server>>

\* DeleteResource / RolloutRestart up to the call of getCachedGVR.
BeginMutate(p, op, kind, ns, name) ==
    /\ calls[p].pc = "idle"
    /\ calls' = [calls EXCEPT ![p] =
                    [Idle EXCEPT !.pc = "resolve", !.op = op, !.kind = kind, !.ns = ns,
                                 !.name = name]]
    /\ UNCHANGED <<namespaces, objects, apiResourceCache, resourceCaches,
                   informerSynced, started, returned>>
    /\ UNCHANGED <<discovery, cacheLock, watchFailed, waitResult>>
    /\ UNCHANGED <<view, server>>

\* A plausible slip: the delete also evicts the object from the kind's store.
DeleteEvicting(p) ==
    /\ calls[p].pc = "delete"
    /\ ~calls[p].cancelled
    /\ LET c == calls[p]
           r == ApiDelete(objects, c.gvr, c.ns, c.name)
           d == [c EXCEPT !.api = Issued(c, "delete", r.res)]
       IN  /\ objects' = r.objects
           /\ resourceCaches' =
                 [resourceCaches EXCEPT ![c.kind].items =
                     {o \in @ : ~(o.ns = c.ns /\ o.name = c.name)}]
           /\ calls' = IF r.res = "ok"
                       THEN Disturb([calls EXCEPT ![p] = Done(d, "none")], p)
                       ELSE [calls EXCEPT ![p] = Done(d, "upstream")]
    /\ UNCHANGED <<namespaces, apiResourceCache, informerSynced, started, returned>>
    /\ UNCHANGED <<discovery, cacheLock, watchFailed, waitResult>>
    /\ UNCHANGED <<view, server>>

\* DeleteResource: the live delete; its error is returned wrapped.
Delete(p) ==
    /\ calls[p].pc = "delete"
    /\ ~calls[p].cancelled
    /\ LET c == calls[p]
           r == ApiDelete(objects, c.gvr, c.ns, c.name)
           d == [c EXCEPT !.api = Issued(c, "delete", r.res)]
       IN  /\ objects' = r.objects
           /\ calls' = IF r.res = "ok"
                       THEN Disturb([calls EXCEPT ![p] = Done(d, "none")], p)
                       ELSE [calls EXCEPT ![p] = Done(d, "upstream")]
    /\ UNCHANGED <<namespaces, apiResourceCache, resourceCaches, informerSynced,
                   started, returned>>
    /\ UNCHANGED <<discovery, cacheLock, watchFailed, waitResult>>
    /\ UNCHANGED <<view, server>>

\* Values of time.Now().Format(time.RFC3339).
Timestamps == {"t1", "t2"}

\* RolloutRestart: the strategic merge patch stamped with the time t, then
\* the test for spec.template in the object the patch returned.
Rollout(p, t) ==
    /\ calls[p].pc = "rollout"
    /\ ~calls[p].cancelled
    /\ LET c == calls[p]
           cur == Lookup(objects, c.gvr, c.ns, c.name)
           r == ApiStrategicPatch(objects, c.gvr, c.ns, c.name, t)
           d == [c EXCEPT !.api = Issued(c, "patch", r.res),
                          !.target = IF cur = {} THEN NoObj ELSE CHOOSE o \in cur : TRUE]
       IN  /\ objects' = r.objects
           /\ calls' =
                 IF r.res # "ok" THEN [calls EXCEPT ![p] = Done(d, "upstream")]
                 ELSE IF ~HasPodTemplate(r.obj.gvr)
                 THEN [calls EXCEPT ![p] = Done(d, "unsupportedkind")]
                 ELSE Disturb([calls EXCEPT ![p] = [Done(d, "none") EXCEPT !.obj = r.obj]], p)
    /\ UNCHANGED <<namespaces, apiResourceCache, resourceCaches, informerSynced,
                   started, returned>>
    /\ UNCHANGED <<discovery, cacheLock, watchFailed, waitResult>>
    /\ UNCHANGED <<view, server>>

\* The caller's ctx is cancelled while its operation runs.
Cancel(p) ==
    /\ calls[p].pc \notin {"idle", "done"}
    /\ ~calls[p].cancelled
    /\ calls' = [calls EXCEPT ![p].cancelled = TRUE]
    /\ UNCHANGED <<namespaces, objects, apiResourceCache, resourceCaches,
                   informerSynced, started, returned>>
    /\ UNCHANGED <<discovery, cacheLock, watchFailed, waitResult>>
    /\ UNCHANGED <<view, server>>

\* The steps that hand ctx to the clientset or to the dynamic client, and
\* the call each of them makes.
CtxCalls ==
    [nsGet |-> "nsGet", nsCreate |-> "nsCreate", patch |-> "patch",
     create |-> "create", liveGet |-> "get", liveList |-> "list",
     delete |-> "delete", rollout |-> "patch"]

\* A call made with a ctx that is done: the REST client returns ctx.Err()
\* and sends nothing.  The code treats it as any other error of the call:
\* the namespace get falls through to the patch (only not-found is looked
\* at), every other call ends the operation with the error wrapped.
CallCancelled(p) ==
    /\ calls[p].cancelled
    /\ calls[p].pc \in DOMAIN CtxCalls
    /\ LET c == calls[p]
           d == [c EXCEPT !.api = Issued(c, CtxCalls[c.pc], "cancelled")]
       IN  calls' = [calls EXCEPT ![p] =
              CASE c.pc = "nsGet" -> [d EXCEPT !.pc = "patch"]
                [] c.pc = "patch" /\ c.name = "" -> Done(c, "invalid")
                [] c.pc = "patch" /\ c.name # "" /\ c.gvr = NoGVR -> Done(c, "panic")
                [] c.pc = "patch" /\ c.name # "" /\ c.gvr # NoGVR ->
                      Done(d, IF c.op = "UpsertYAML" THEN "cancelled" ELSE "panic")
                [] c.pc = "liveGet" /\ c.op = "Describe" /\ c.ns = "" -> Done(d, "panic")
                [] OTHER -> Done(d, "cancelled")]
    /\ UNCHANGED <<namespaces, objects, apiResourceCache, resourceCaches,
                   informerSynced, started, returned>>
    /\ UNCHANGED <<discovery, cacheLock, watchFailed, waitResult>>
    /\ UNCHANGED <<view, server>>

\* The caller takes the result; its goroutine is free for the next request.
Return(p) ==
    /\ calls[p].pc = "done"
    /\ calls' = [calls EXCEPT ![p] = Idle]
    /\ UNCHANGED <<namespaces, objects, apiResourceCache, resourceCaches,
                   informerSynced, started, returned>>
    /\ UNCHANGED <<discovery, cacheLock, watchFailed, waitResult>>
    /\ UNCHANGED <<view, server>>

\* The caller issues the upsert it has just finished once more, unchanged.
Repeat(p) ==
    /\ calls[p].pc = "done"
    /\ calls[p].op \in Upserts
    /\ calls[p].first = ""
    /\ LET c == calls[p]
       IN  calls' = [calls EXCEPT ![p] =
                        [Idle EXCEPT !.pc = "resolve", !.op = c.op, !.kind = c.kind,
                                     !.ns = c.ns, !.name = c.name, !.mns = c.mns,
                                     !.app = c.app, !.first = c.err,
                                     !.snap = [namespaces |-> namespaces, objects |-> objects],
                                     !.quiet = c.quiet]]
    /\ UNCHANGED <<namespaces, objects, apiResourceCache, resourceCaches,
                   informerSynced, started, returned>>
    /\ UNCHANGED <<discovery, cacheLock, watchFailed, waitResult>>
    /\ UNCHANGED <<view, server>>

----------------------------------------------------------------------------
(* Informers.                                                              *)

\* StartInformers: dynamicInformerFactory.Start.
StartInformers ==
    /\ ~started
    /\ started' = TRUE
    /\ UNCHANGED <<namespaces, objects, apiResourceCache, resourceCaches,
                   informerSynced, calls, returned>>
    /\ UNCHANGED <<discovery, cacheLock, watchFailed, waitResult>>
    /\ UNCHANGED <<view, server>>

\* dynamicInformerFactory.WaitForCacheSync: the factory waits for the
\* informers it has started, and for no other; the result maps each of them
\* to whether it synced before the stop channel closed.
dynamicSynced(cancelled) ==
    LET waitedFor == IF started THEN {kind \in Kinds : resourceCaches[kind].exists}
                     ELSE {}
    IN  [kind \in waitedFor |-> informerSynced[kind]]

\* WaitForCacheSync(ctx), at its return: false if some entry of the result
\* is false, true otherwise.  While an informer it waits for has not synced
\* the call blocks until ctx is done.
WaitForCacheSync(cancelled) ==
    /\ LET res == dynamicSynced(cancelled)
       IN  /\ (\E kind \in DOMAIN res : ~res[kind]) => cancelled
           /\ waitResult' = IF \E kind \in DOMAIN res : ~res[kind] THEN "false"
                             ELSE "true"
    /\ UNCHANGED <<namespaces, objects, apiResourceCache, resourceCaches,
                   informerSynced, started, calls, returned>>
    /\ UNCHANGED <<discovery, cacheLock, watchFailed>>
    /\ UNCHANGED <<view, server>>

\* What the API server holds for the resource a kind's informer mirrors.
Mirrored(kind) == {o \in objects : o.gvr = resourceCaches[kind].gvr}

\* A started informer completes its initial list: the store is filled and
\* HasSynced turns true.
InformerList(kind) ==
    /\ started
    /\ resourceCaches[kind].exists
    /\ ~informerSynced[kind]
    /\ kind \notin watchFailed
    /\ resourceCaches' = [resourceCaches EXCEPT ![kind].items = Mirrored(kind)]
    /\ informerSynced' = [informerSynced EXCEPT ![kind] = TRUE]
    /\ UNCHANGED <<namespaces, objects, apiResourceCache, started, calls, returned>>
    /\ UNCHANGED <<discovery, cacheLock, watchFailed, waitResult>>
    /\ UNCHANGED <<view, server>>

\* A started informer's initial list is refused by the API server, and
\* every retry of it will be (the client may not list or watch the resource):
\* the store stays empty and HasSynced false.
InformerListFails(kind) ==
    /\ started
    /\ resourceCaches[kind].exists
    /\ ~informerSynced[kind]
    /\ kind \notin watchFailed
    /\ watchFailed' = watchFailed \cup {kind}
    /\ UNCHANGED <<namespaces, objects, apiResourceCache, resourceCaches,
                   informerSynced, started, calls, returned>>
    /\ UNCHANGED <<discovery, cacheLock, waitResult>>
    /\ UNCHANGED <<view, server>>

\* A synced informer applies the watch's pending add/update/delete deltas.
InformerWatch(kind) ==
    /\ informerSynced[kind]
    /\ resourceCaches[kind].items # Mirrored(kind)
    /\ resourceCaches' = [resourceCaches EXCEPT ![kind].items = Mirrored(kind)]
    /\ UNCHANGED <<namespaces, objects, apiResourceCache, informerSynced, started,
                   calls, returned>>
    /\ UNCHANGED <<discovery, cacheLock, watchFailed, waitResult>>
    /\ UNCHANGED <<view, server>>

----------------------------------------------------------------------------

----------------------------------------------------------------------------
(* Derived views: GetPodsLogs, GetIngresses, GetAPIResources.              *)

\* The ceiling GetPodsLogs puts on LogstailLines.
MaxTailLines == 300

\* A plausible slip: the ceiling is left out.
tailLinesUnclamped(LogstailLines) == LogstailLines

\* GetPodsLogs: the TailLines of podLogOptions.
tailLines(LogstailLines) ==
    IF LogstailLines > MaxTailLines THEN MaxTailLines ELSE LogstailLines

\* Tail lengths a caller may ask for.
TailArgs == {-1, 0, 1, 299, 300, 301, 1000}

ContainerArgs == {"", "app"}

\* Spec.Containers of the pods the API server may return.
Pods == {<<"app">>, <<"app", "sidecar">>, <<"sidecar", "app", "proxy">>}

\* What a log stream request may answer: the stream and its lines, an error
\* of Stream, or a stream whose copy fails.
StreamAnswers == {"ok", "streamerr", "copyerr"}

LogRequest(container, n) == [container |-> container, tailLines |-> n]

\* The pieces the aggregated string is made of.
Piece(what, container) == [piece |-> what, container |-> container]

\* GetPodsLogs up to the first call: the ceiling, then the branch on
\* containerName.
BeginLogs(container, n) ==
    /\ view.pc = "idle"
    /\ view' = [IdleView EXCEPT !.op = "Logs", !.container = container, !.tail = n,
                                !.tailLines = tailLines(n),
                                !.pc = IF container # "" THEN "streamNamed" ELSE "podGet"]
    /\ UNCHANGED <<namespaces, objects, apiResourceCache, resourceCaches,
                   informerSynced, started, calls, returned>>
    /\ UNCHANGED <<discovery, cacheLock, watchFailed, waitResult, server>>

\* GetPodsLogs with a container name: one stream; either error is returned.
StreamNamed(ans) ==
    /\ view.pc = "streamNamed"
    /\ view' = [view EXCEPT
                   !.reqs = Append(@, LogRequest(view.container, view.tailLines)),
                   !.answers = Append(@, ans),
                   !.out = IF ans = "ok" THEN <<Piece("lines", view.container)>> ELSE <<>>,
                   !.err = IF ans = "ok" THEN "none" ELSE "upstream",
                   !.pc = "done"]
    /\ UNCHANGED <<namespaces, objects, apiResourceCache, resourceCaches,
                   informerSynced, started, calls, returned>>
    /\ UNCHANGED <<discovery, cacheLock, watchFailed, waitResult, server>>

\* GetPodsLogs without a container name: Pods(namespace).Get; found tells
\* whether the pod exists.
PodGet(found, pod) ==
    /\ view.pc = "podGet"
    /\ view' = IF ~found THEN [view EXCEPT !.err = "upstream", !.pc = "done"]
               ELSE IF Len(pod) = 1 THEN [view EXCEPT !.pod = pod, !.pc = "streamOnly"]
               ELSE [view EXCEPT !.pod = pod, !.i = 1, !.pc = "loop"]
    /\ UNCHANGED <<namespaces, objects, apiResourceCache, resourceCaches,
                   informerSynced, started, calls, returned>>
    /\ UNCHANGED <<discovery, cacheLock, watchFailed, waitResult, server>>

\* GetPodsLogs, the pod has one container: one stream with the options as
\* they are (no container set); either error is returned.
StreamOnly(ans) ==
    /\ view.pc = "streamOnly"
    /\ view' = [view EXCEPT
                   !.reqs = Append(@, LogRequest("", view.tailLines)),
                   !.answers = Append(@, ans),
                   !.out = IF ans = "ok" THEN <<Piece("lines", view.pod[1])>> ELSE <<>>,
                   !.err = IF ans = "ok" THEN "none" ELSE "upstream",
                   !.pc = "done"]
    /\ UNCHANGED <<namespaces, objects, apiResourceCache, resourceCaches,
                   informerSynced, started, calls, returned>>
    /\ UNCHANGED <<discovery, cacheLock, watchFailed, waitResult, server>>

\* A plausible slip: a container whose stream fails ends the aggregation.
StreamNextAborting(ans) ==
    /\ view.pc = "loop"
    /\ LET name == view.pod[view.i]
           last == view.i = Len(view.pod)
       IN  view' = [view EXCEPT
                       !.reqs = Append(@, LogRequest(name, view.tailLines)),
                       !.answers = Append(@, ans),
                       !.out = @ \o (CASE ans = "ok" ->
                                            <<Piece("header", name), Piece("lines", name)>>
                                       [] ans = "copyerr" ->
                                            <<Piece("header", name), Piece("readerror", name)>>
                                       [] ans = "streamerr" -> <<>>),
                       !.i = @ + 1,
                       !.err = IF ans = "streamerr" THEN "upstream"
                               ELSE IF last THEN "none" ELSE @,
                       !.pc = IF last \/ ans = "streamerr" THEN "done" ELSE @]
    /\ UNCHANGED <<namespaces, objects, apiResourceCache, resourceCaches,
                   informerSynced, started, calls, returned>>
    /\ UNCHANGED <<discovery, cacheLock, watchFailed, waitResult, server>>

\* GetPodsLogs, several containers: one turn of the loop.  The options are
\* copied and the container set; a failed Stream writes the error line and
\* goes on, a stream writes the header and then its lines or the read
\* error.  After the last container the string is returned with a nil error.
StreamNext(ans) ==
    /\ view.pc = "loop"
    /\ LET name == view.pod[view.i]
           last == view.i = Len(view.pod)
       IN  view' = [view EXCEPT
                       !.reqs = Append(@, LogRequest(name, view.tailLines)),
                       !.answers = Append(@, ans),
                       !.out = @ \o (CASE ans = "ok" ->
                                            <<Piece("header", name), Piece("lines", name)>>
                                       [] ans = "copyerr" ->
                                            <<Piece("header", name), Piece("readerror", name)>>
                                       [] ans = "streamerr" ->
                                            <<Piece("streamerror", name)>>),
                       !.i = @ + 1,
                       !.err = IF last THEN "none" ELSE @,
                       !.pc = IF last THEN "done" ELSE @]
    /\ UNCHANGED <<namespaces, objects, apiResourceCache, resourceCaches,
                   informerSynced, started, calls, returned>>
    /\ UNCHANGED <<discovery, cacheLock, watchFailed, waitResult, server>>

\* An ingress: Spec.Rules is a sequence of rules [host, hasHTTP, paths];
\* hasHTTP is rule.HTTP != nil and paths the sequence of its paths
\* [path, service]; service is NoService (Backend.Service == nil, a
\* resource backend) or [name, portName, portNum].
NoService == [name |-> "", portName |-> "", portNum |-> 0]
Service(name, portName, portNum) == [name |-> name, portName |-> portName, portNum |-> portNum]
HTTPPath(path, service) == [path |-> path, service |-> service]
Rule(host, hasHTTP, paths) == [host |-> host, hasHTTP |-> hasHTTP, paths |-> paths]
Ingress(name, rules) == [name |-> name, ns |-> "demo", rules |-> rules]

\* The ingresses of the cluster.
Ingresses ==
    { Ingress("bare", <<>>),
      Ingress("shop", << Rule("a.example", TRUE,
                              << HTTPPath("/", Service("web", "", 80)),
                                 HTTPPath("/static", NoService) >>) >>),
      Ingress("mixed", << Rule("b.example", FALSE, <<>>),
                          Rule("a.example", TRUE,
                               << HTTPPath("/api", Service("api", "http", 0)) >>),
                          Rule("a.example", TRUE,
                               << HTTPPath("/v2", Service("api2", "", 8080)) >>) >>),
      Ingress("any", << Rule("", TRUE, << HTTPPath("/", Service("fallback", "", 80)) >>) >>) }

HostArgs == {"", "a.example", "c.example"}

IngressPathInfo(rule, path) ==
    [host |-> rule.host, path |-> path.path, serviceName |-> path.service.name,
     portName |-> path.service.portName, portNum |-> path.service.portNum]

\* The inner loop: the service-backed paths of one rule.
RECURSIVE PathsOf(_, _)
PathsOf(rule, paths) ==
    IF paths = <<>> THEN <<>>
    ELSE (IF Head(paths).service # NoService
          THEN <<IngressPathInfo(rule, Head(paths))>> ELSE <<>>)
         \o PathsOf(rule, Tail(paths))

\* The rule loop: pathInfos of the rules the host does not skip.
RECURSIVE PathInfos(_, _)
PathInfos(rules, host) ==
    IF rules = <<>> THEN <<>>
    ELSE LET rule == Head(rules)
         IN  (IF host # "" /\ rule.host # host THEN <<>>
              ELSE IF rule.hasHTTP THEN PathsOf(rule, rule.paths)
              ELSE <<>>)
             \o PathInfos(Tail(rules), host)

\* A plausible slip: an ingress without rules is not taken to match.
hasMatchingHostRulesOnly(ingress, host) ==
    \E k \in DOMAIN ingress.rules : host = "" \/ ingress.rules[k].host = host

\* hasMatchingHost at the end of the rule loop.
hasMatchingHost(ingress, host) ==
    \/ Len(ingress.rules) = 0
    \/ \E k \in DOMAIN ingress.rules : host = "" \/ ingress.rules[k].host = host

\* The item a dynamic informer's store holds for an ingress: the object's
\* content as *unstructured.Unstructured.
Unstructured(ing) ==
    [typed |-> FALSE,
     object |-> [metadata |-> [name |-> ing.name, namespace |-> ing.ns],
                 spec |-> [rules |-> ing.rules]]]

\* runtime.DefaultUnstructuredConverter.FromUnstructured(content, &ingress).
FromUnstructured(content) ==
    [err |-> "none",
     ingress |-> [name |-> content.metadata.name, ns |-> content.metadata.namespace,
                  rules |-> content.spec.rules]]

\* The map appended for an ingress that matched.
IngressEntry(ingress, host) ==
    [name |-> ingress.name, namespace |-> ingress.ns,
     IngressPathInfo |-> PathInfos(ingress.rules, host)]

\* A plausible slip: only a typed *networkingv1.Ingress item is accepted, and
\* the store of a dynamic informer holds none.
IngressesFromStoreTypedOnly(items, host) ==
    {IngressEntry(item.object, host) :
        item \in {x \in items : x.typed /\ hasMatchingHost(x.object, host)}}

\* GetIngresses, the loop over ingressCache.List(): an unstructured item is
\* converted and skipped when the conversion fails, a typed one is taken as
\* it is.
IngressesFromStore(items, host) ==
    LET converted ==
            {FromUnstructured(x.object).ingress :
                x \in {y \in items : ~y.typed /\ FromUnstructured(y.object).err = "none"}}
            \cup {x.object : x \in {y \in items : y.typed}}
    IN  {IngressEntry(ing, host) : ing \in {x \in converted : hasMatchingHost(x, host)}}

\* GetIngresses, the loop over the items of Ingresses("").List().
IngressesFromList(items, host) ==
    {IngressEntry(ing, host) : ing \in {x \in items : hasMatchingHost(x, host)}}

\* GetIngresses: the Ingress store when there is one, the live list of all
\* namespaces otherwise; each with its own copy of the filter and flattening.
GetIngresses(exists, stored, live, host) ==
    /\ view.pc = "idle"
    /\ LET items == IF exists THEN stored ELSE live
       IN  view' = [LockOp(LockOp(IdleView, "informerLock", "RLock"),
                           "informerLock", "RUnlock") EXCEPT
                       !.op = "Ingresses", !.host = host, !.items = items,
                       !.src = IF exists THEN "store" ELSE "live",
                       !.list = IF exists
                                THEN IngressesFromStore({Unstructured(x) : x \in stored},
                                                        host)
                                ELSE IngressesFromList(live, host),
                       !.err = "none", !.pc = "done"]
    /\ UNCHANGED <<namespaces, objects, apiResourceCache, resourceCaches,
                   informerSynced, started, calls, returned>>
    /\ UNCHANGED <<discovery, cacheLock, watchFailed, waitResult, server>>

\* What List() of a kind's store returns: the store is a dynamic informer's,
\* and its items are *unstructured.Unstructured, never a typed object.
StoreList(store) == {[typed |-> FALSE, object |-> o] : o \in store.items}

\* The map appended for an event.
EventEntry(event) == [name |-> event.name, namespace |-> event.ns]

\* GetEvents up to the label callAPIServer: the loop over the Event store's
\* items.  Only an item that is a *corev1.Event gets past the type
\* assertion; the first such item of the namespace sends a call with a label
\* selector to the API server.  found is whether the call returns here.
GetEventsFromStore(caches, namespace, labelSelector) ==
    LET locks == << <<"informerLock", "RLock">>, <<"informerLock", "RUnlock">> >>
    IN  IF caches["Event"].exists
        THEN LET kept == {x \in StoreList(caches["Event"]) :
                             /\ x.typed
                             /\ ~(namespace # "" /\ x.object.ns # namespace)}
             IN  IF kept # {} /\ labelSelector # <<>>
                 THEN [found |-> FALSE, events |-> {}, locks |-> locks]
                 ELSE [found |-> TRUE, events |-> {EventEntry(x.object) : x \in kept},
                       locks |-> locks]
        ELSE [found |-> FALSE, events |-> {}, locks |-> locks]

\* Clientset.CoreV1().Events(namespace).List(ctx, options): the events of the
\* namespace, of all namespaces when it is empty, that the selector matches.
\* The API groups that serve events serve the same objects.
ApiEventList(objs, namespace, labelSelector) ==
    {o \in objs : /\ KindOfResource(o.gvr) = "Event"
                  /\ (namespace = "" \/ o.ns = namespace)
                  /\ LabelMatches(o, labelSelector)}

\* GetEvents up to its return from the store or to callAPIServer.
GetEvents(namespace, labelSelector) ==
    /\ view.pc = "idle"
    /\ LET got == GetEventsFromStore(resourceCaches, namespace, labelSelector)
           v == [IdleView EXCEPT !.op = "Events", !.namespace = namespace,
                                 !.labelSelector = labelSelector,
                                 !.items = resourceCaches["Event"].items,
                                 !.locks = got.locks]
       IN  view' = IF got.found
                   THEN [v EXCEPT !.src = "store", !.list = got.events,
                                  !.err = "none", !.pc = "done"]
                   ELSE [v EXCEPT !.pc = "callAPIServer"]
    /\ UNCHANGED <<namespaces, objects, apiResourceCache, resourceCaches,
                   informerSynced, started, calls, returned>>
    /\ UNCHANGED <<discovery, cacheLock, watchFailed, waitResult, server>>

\* GetEvents from callAPIServer on: the live list and its projection.
EventsLive ==
    /\ view.pc = "callAPIServer"
    /\ view' = [view EXCEPT
                   !.src = "live",
                   !.list = {EventEntry(o) :
                               o \in ApiEventList(objects, view.namespace,
                                                  view.labelSelector)},
                   !.err = "none", !.pc = "done"]
    /\ UNCHANGED <<namespaces, objects, apiResourceCache, resourceCaches,
                   informerSynced, started, calls, returned>>
    /\ UNCHANGED <<discovery, cacheLock, watchFailed, waitResult, server>>

\* The resources of an answer in the order the two loops visit them.
RECURSIVE AllResources(_)
AllResources(lists) ==
    IF lists = <<>> THEN <<>>
    ELSE Head(lists).resources \o AllResources(Tail(lists))

\* The test GetAPIResources skips a resource on.
SkipResource(resource, includeNamespaceScoped, includeClusterScoped) ==
    \/ resource.namespaced /\ ~includeClusterScoped
    \/ ~resource.namespaced /\ ~includeClusterScoped

\* GetAPIResources: the discovery call, the error test (an error is
\* returned only when it is ErrGroupDiscoveryFailed) and the filter.
GetAPIResources(includeNamespaceScoped, includeClusterScoped) ==
    /\ view.pc = "idle"
    /\ LET keep(r) == ~SkipResource(r, includeNamespaceScoped, includeClusterScoped)
       IN  view' = [IdleView EXCEPT
                       !.op = "APIResources",
                       !.includeNamespaceScoped = includeNamespaceScoped,
                       !.includeClusterScoped = includeClusterScoped,
                       !.seen = discovery,
                       !.resources = IF discovery.err = "group" THEN <<>>
                                     ELSE SelectSeq(AllResources(discovery.lists), keep),
                       !.err = IF discovery.err = "group" THEN "upstream" ELSE "none",
                       !.pc = "done"]
    /\ UNCHANGED <<namespaces, objects, apiResourceCache, resourceCaches,
                   informerSynced, started, calls, returned>>
    /\ UNCHANGED <<discovery, cacheLock, watchFailed, waitResult, server>>

\* The handler takes the view's result.
ViewReturn ==
    /\ view.pc = "done"
    /\ view' = IdleView
    /\ UNCHANGED <<namespaces, objects, apiResourceCache, resourceCaches,
                   informerSynced, started, calls, returned>>
    /\ UNCHANGED <<discovery, cacheLock, watchFailed, waitResult, server>>

----------------------------------------------------------------------------
(* main(): flags, integration clients and tool registration.               *)

ReadTools ==
    {"getAPIResources", "getResource", "listResources", "describeResource",
     "getPodsLogs", "getPodMetrics", "getNodeMetrics", "getEvents", "getIngresses"}
PrometheusTools == {"get_metric_names", "query_instant", "query_range", "get_alerts"}
LokiTools ==
    {"query_logs_instant", "query_logs_range", "get_log_labels",
     "get_log_label_values", "get_log_streams"}
WriteTools == {"rolloutRestart", "deleteResource", "createResourceJSON", "createResourceYAML"}

\* The command line and the environment: a flag or a variable is "unset"
\* or carries its value.
MainArgs ==
    [safeMode : {"unset", "true"},
     enablePrometheus : {"unset", "true", "false"},
     enableLoki : {"unset", "true", "false"},
     prometheusURL : {"unset", "http://prom:9090"},
     envPrometheusURL : {"unset", ""},
     lokiURL : {"unset", "http://loki:3100"}]

\* prometheus.New / loki.New: an empty URL is refused.
NewIntegrationClient(url) == IF url = "" THEN "nil" ELSE url

\* flag.BoolVar with a default, after flag.Parse.
BoolFlag(arg, default) == IF arg = "unset" THEN default ELSE arg = "true"

\* getEnvOrDefault.
getEnvOrDefault(env, defaultValue) == IF env # "unset" THEN env ELSE defaultValue

\* flag.StringVar with a default, after flag.Parse.
StringFlag(arg, default) == IF arg = "unset" THEN default ELSE arg

\* main: the two integration clients, created from the variables as they
\* are at that point.
MakeClients ==
    /\ server.pc = "clients"
    /\ server' = [server EXCEPT
                     !.promClient = IF server.enablePrometheus
                                    THEN NewIntegrationClient(server.prometheusURL) ELSE "nil",
                     !.lokiClient = IF server.enableLoki
                                    THEN NewIntegrationClient(server.lokiURL) ELSE "nil",
                     !.pc = "flags"]
    /\ UNCHANGED <<namespaces, objects, apiResourceCache, resourceCaches,
                   informerSynced, started, calls, returned>>
    /\ UNCHANGED <<discovery, cacheLock, watchFailed, waitResult, view>>

\* main: the flag definitions and flag.Parse.
ParseFlags ==
    /\ server.pc = "flags"
    /\ LET a == server.args
       IN  server' = [server EXCEPT
                         !.safeMod = BoolFlag(a.safeMode, FALSE),
                         !.enablePrometheus = BoolFlag(a.enablePrometheus, TRUE),
                         !.enableLoki = BoolFlag(a.enableLoki, TRUE),
                         !.prometheusURL =
                             StringFlag(a.prometheusURL,
                                        getEnvOrDefault(a.envPrometheusURL,
                                                        "http://127.0.0.1:9090")),
                         !.lokiURL =
                             StringFlag(a.lokiURL,
                                        getEnvOrDefault("unset", "http://127.0.0.1:3100")),
                         !.pc = "register"]
    /\ UNCHANGED <<namespaces, objects, apiResourceCache, resourceCaches,
                   informerSynced, started, calls, returned>>
    /\ UNCHANGED <<discovery, cacheLock, watchFailed, waitResult, view>>

\* A plausible slip: the write tools are registered whatever safe-mode says.
RegisterToolsAlways ==
    /\ server.pc = "register"
    /\ server' = [server EXCEPT
                     !.tools = ReadTools
                               \cup (IF server.promClient # "nil" THEN PrometheusTools ELSE {})
                               \cup (IF server.lokiClient # "nil" THEN LokiTools ELSE {})
                               \cup {"send_to_feishu"}
                               \cup WriteTools,
                     !.pc = "serving"]
    /\ UNCHANGED <<namespaces, objects, apiResourceCache, resourceCaches,
                   informerSynced, started, calls, returned>>
    /\ UNCHANGED <<discovery, cacheLock, watchFailed, waitResult, view>>

\* main: the AddTool calls up to the start of the transport.
RegisterTools ==
    /\ server.pc = "register"
    /\ server' = [server EXCEPT
                     !.tools = ReadTools
                               \cup (IF server.promClient # "nil" THEN PrometheusTools ELSE {})
                               \cup (IF server.lokiClient # "nil" THEN LokiTools ELSE {})
                               \cup {"send_to_feishu"}
                               \cup (IF ~server.safeMod THEN WriteTools ELSE {}),
                     !.pc = "serving"]
    /\ UNCHANGED <<namespaces, objects, apiResourceCache, resourceCaches,
                   informerSynced, started, calls, returned>>
    /\ UNCHANGED <<discovery, cacheLock, watchFailed, waitResult, view>>

----------------------------------------------------------------------------
(* Specifications.                                                         *)

\* c1 draws its requests from all the arguments above; c2 is the second,
\* concurrent request: the upsert of the scenario, or a getCachedGVR.
ScenarioUpsert(p, op) == BeginUpsert(p, op, "Deployment", "demo", "web", "", "foo")

\* The write path: upserts of two concurrent callers.
NextWrite ==
    \/ \E op \in Upserts, kind \in UpsertKinds, ns \in NamespaceArgs,
          name \in ManifestNames, mns \in ManifestNamespaces, app \in ManifestApps :
          BeginUpsert("c1", op, kind, ns, name, mns, app)
    \/ \E op \in Upserts : ScenarioUpsert("c2", op)
    \/ \E p \in Callers : Resolve(p)
    \/ \E p \in Callers : Discover(p)
    \/ \E p \in Callers : NsGet(p)
    \/ \E p \in Callers : NsCreate(p)
    \/ \E p \in Callers : Patch(p)
    \/ \E p \in Callers : Create(p)
    \/ \E p \in Callers : Return(p)
    \/ \E p \in Callers : Repeat(p)

\* The read path: reads of one caller next to the informers and to a
\* concurrent getCachedGVR.
NextRead ==
    \/ \E p \in Callers, kind \in ResolveKinds : BeginResolve(p, kind)
    \/ \E op \in {"Get", "Describe"}, kind \in ReadKinds,
          ns \in NamespaceArgs, name \in NameArgs : BeginGet("c1", op, kind, ns, name)
    \/ \E kind \in ReadKinds, ns \in NamespaceArgs,
          sel \in LabelSelectors, fsel \in FieldSelectors : BeginList("c1", kind, ns, sel, fsel)
    \/ \E p \in Callers : Resolve(p)
    \/ \E p \in Callers : Discover(p)
    \/ \E p \in Callers : Lock(p)
    \/ \E p \in Callers : Insert(p)
    \/ \E p \in Callers : LiveGet(p)
    \/ \E p \in Callers : LiveList(p)
    \/ \E p \in Callers : Return(p)
    \/ StartInformers
    \/ \E kind \in Kinds : InformerList(kind)

\* Startup and readiness: the informers start, sync or fail to, the caller
\* waits for them, and one caller reads meanwhile.
NextSync ==
    \/ \E op \in {"Get", "Describe"}, kind \in ReadKinds,
          ns \in NamespaceArgs, name \in NameArgs : BeginGet("c1", op, kind, ns, name)
    \/ \E kind \in ReadKinds, ns \in NamespaceArgs,
          sel \in LabelSelectors, fsel \in FieldSelectors : BeginList("c1", kind, ns, sel, fsel)
    \/ Resolve("c1")
    \/ Discover("c1")
    \/ LiveGet("c1")
    \/ LiveList("c1")
    \/ Return("c1")
    \/ StartInformers
    \/ \E kind \in Kinds : InformerList(kind)
    \/ \E kind \in Kinds : InformerListFails(kind)
    \/ \E cancelled \in BOOLEAN : WaitForCacheSync(cancelled)

\* getCachedGVR alone, called concurrently while the discovery content
\* changes.
ResolveArgs == {LateKind, "Scale", "Binding", MiscasedKind, UnknownKind}

NextResolve ==
    \/ \E p \in Callers, kind \in ResolveArgs : BeginResolve(p, kind)
    \/ \E p \in Callers : Resolve(p)
    \/ \E p \in Callers : Discover(p)
    \/ \E p \in Callers : Lock(p)
    \/ \E p \in Callers : Insert(p)
    \/ \E p \in Callers : Return(p)
    \/ DiscoveryChanges

\* The server process: YAML upserts of a Deployment served one after the
\* other, next to the informers.
NextLive ==
    \/ \E mns \in {"", "demo"}, app \in ManifestApps :
          BeginUpsert("c1", "UpsertYAML", "Deployment", "demo", "web", mns, app)
    \/ Resolve("c1")
    \/ NsGet("c1")
    \/ NsCreate("c1")
    \/ Patch("c1")
    \/ Create("c1")
    \/ Return("c1")
    \/ StartInformers
    \/ \E kind \in Kinds : InformerList(kind)
    \/ \E kind \in Kinds : InformerWatch(kind)

\* Deletes and rollout restarts of one caller next to the upsert of another
\* and to the informers.
MutateKinds == {"Deployment", "Event", LateKind, UnknownKind}

NextMutate ==
    \/ \E op \in {"Delete", "Rollout"}, kind \in MutateKinds,
          ns \in NamespaceArgs, name \in NameArgs : BeginMutate("c1", op, kind, ns, name)
    \/ ScenarioUpsert("c2", "UpsertYAML")
    \/ \E p \in Callers : Resolve(p)
    \/ \E p \in Callers : Discover(p)
    \/ \E p \in Callers : Lock(p)
    \/ \E p \in Callers : Insert(p)
    \/ \E p \in Callers : NsGet(p)
    \/ \E p \in Callers : NsCreate(p)
    \/ \E p \in Callers : Patch(p)
    \/ \E p \in Callers : Create(p)
    \/ \E p \in Callers : Delete(p)
    \/ \E p \in Callers, t \in Timestamps : Rollout(p, t)
    \/ \E p \in Callers : Return(p)
    \/ StartInformers
    \/ \E kind \in Kinds : InformerList(kind)
    \/ \E kind \in Kinds : InformerWatch(kind)

\* One caller whose ctx may be cancelled at any point of a YAML upsert or
\* of a get.
CancelKinds == {"Deployment", "Scale"}

NextCancel ==
    \/ \E ns \in {"demo", "other"}, app \in ManifestApps :
          BeginUpsert("c1", "UpsertYAML", "Deployment", ns, "web", "", app)
    \/ \E kind \in CancelKinds : BeginGet("c1", "Get", kind, "demo", "web")
    \/ Resolve("c1")
    \/ Discover("c1")
    \/ Lock("c1")
    \/ Insert("c1")
    \/ NsGet("c1")
    \/ NsCreate("c1")
    \/ Patch("c1")
    \/ Create("c1")
    \/ LiveGet("c1")
    \/ Cancel("c1")
    \/ CallCancelled("c1")
    \/ Return("c1")

\* Clusters with Deployments of one name in two namespaces.
ListClusters ==
    {[namespaces |-> {"demo", "other"}, objects |-> objs] :
        objs \in SUBSET {Obj(DeploymentsGVR, "demo", "web", "foo"),
                         Obj(DeploymentsGVR, "demo", "db", ""),
                         Obj(DeploymentsGVR, "other", "web", "")}}

InitList ==
    /\ \E cl \in ListClusters : Constructed(cl, AtStartup)
    /\ server = Booting(NoArgs)

ListNamespaces == {"", "demo", "other", "vacant"}

\* Lists of one caller next to the informers.
NextList ==
    \/ \E kind \in ReadKinds, ns \in ListNamespaces, sel \in LabelSelectors :
          BeginList("c1", kind, ns, sel, <<>>)
    \/ Resolve("c1")
    \/ Discover("c1")
    \/ LiveList("c1")
    \/ Return("c1")
    \/ StartInformers
    \/ \E kind \in Kinds : InformerList(kind)

\* The derived views called one after the other while the discovery content
\* changes.
NextViews ==
    \/ \E container \in ContainerArgs, n \in TailArgs : BeginLogs(container, n)
    \/ \E ans \in StreamAnswers : StreamNamed(ans)
    \/ \E found \in BOOLEAN, pod \in Pods : PodGet(found, pod)
    \/ \E ans \in StreamAnswers : StreamOnly(ans)
    \/ \E ans \in StreamAnswers : StreamNext(ans)
    \/ \E exists \in BOOLEAN, stored \in SUBSET Ingresses, live \in SUBSET Ingresses,
          host \in HostArgs : GetIngresses(exists, stored, live, host)
    \/ \E ns \in BOOLEAN, cl \in BOOLEAN : GetAPIResources(ns, cl)
    \/ ViewReturn
    \/ DiscoveryChanges

\* main() from NewClient's return to the start of the transport.
NextMain ==
    \/ MakeClients
    \/ ParseFlags
    \/ RegisterTools

InitMain ==
    /\ Constructed(CHOOSE cl \in InitClusters : cl.namespaces = {}, AtStartup)
    /\ server \in {Booting(args) : args \in MainArgs}

\* The two upsert variants called with the same kind of arguments: c1 sends
\* the manifest as JSON, c2 as YAML.
NextTwin ==
    \/ \E kind \in UpsertKinds, ns \in NamespaceArgs, name \in ManifestNames,
          mns \in {"", "other"} :
          BeginUpsert("c1", "UpsertJSON", kind, ns, name, mns, "foo")
    \/ \E kind \in UpsertKinds, ns \in NamespaceArgs, name \in ManifestNames,
          mns \in {"", "other"} :
          BeginUpsert("c2", "UpsertYAML", kind, ns, name, mns, "foo")
    \/ \E p \in Callers : Resolve(p)
    \/ \E p \in Callers : Discover(p)
    \/ \E p \in Callers : NsGet(p)
    \/ \E p \in Callers : NsCreate(p)
    \/ \E p \in Callers : Patch(p)
    \/ \E p \in Callers : Create(p)
    \/ \E p \in Callers : Return(p)

\* A cluster that serves the lower-case kind and holds an object of it, and
\* a Deployment, in the namespace whose name is that kind's string.
CollideClusters ==
    { [namespaces |-> {"demo"},
       objects |-> {Obj(DemosGVR, "demo", "web", ""),
                    Obj(DeploymentsGVR, "demo", "web", "")}] }

InitCollide ==
    /\ \E cl \in CollideClusters :
          ConstructedFrom(cl, ServerPreferredResources \o LowercaseResources,
                          Answer(ServerPreferredResources \o LowercaseResources, "none"))
    /\ server = Booting(NoArgs)

CollideKinds == {"Deployment", LowercaseKind}

\* Gets and describes of one caller next to the informers.
NextCollide ==
    \/ \E op \in {"Get", "Describe"}, kind \in CollideKinds,
          ns \in NamespaceArgs, name \in NameArgs : BeginGet("c1", op, kind, ns, name)
    \/ Resolve("c1")
    \/ LiveGet("c1")
    \/ Return("c1")
    \/ StartInformers
    \/ \E kind \in Kinds : InformerList(kind)

\* Clusters with events in two namespaces, with and without the label.
EventClusters ==
    { [namespaces |-> {"demo", "other"}, objects |-> evs] :
         evs \in SUBSET {Obj(EventsGVR, "demo", "web", "foo"),
                         Obj(EventsGVR, "demo", "db", ""),
                         Obj(EventsGVR, "other", "web", "")} }

\* What discovery answered during the fan-out: everything, or the apps group
\* alone while the groups that serve events failed to answer.
FanOutAnswers ==
    { Answer(ServerPreferredResources, "none"),
      Answer(SubSeq(ServerPreferredResources, 2, 2), "group") }

InitEvents ==
    /\ \E cl \in EventClusters, a \in FanOutAnswers : ConstructedFrom(cl, a.lists, a)
    /\ server = Booting(NoArgs)

EventNamespaces == {"", "demo", "vacant"}

\* GetEvents called again and again next to the informers.
NextEvents ==
    \/ \E namespace \in EventNamespaces, labelSelector \in LabelSelectors :
          GetEvents(namespace, labelSelector)
    \/ EventsLive
    \/ ViewReturn
    \/ StartInformers
    \/ \E kind \in Kinds : InformerList(kind)

InitLocks ==
    /\ \E cl \in {x \in InitClusters : x.objects # {}}, a \in FanOutAnswers :
          ConstructedFrom(cl, a.lists, AtStartup)
    /\ server = Booting(NoArgs)

\* Every operation of the read path that takes a lock: resolves of two
\* callers, gets and lists of one, and the two views that read a store.
NextLocks ==
    \/ \E p \in Callers, kind \in {"Scale", "Event"} : BeginResolve(p, kind)
    \/ \E kind \in ReadKinds, ns \in NamespaceArgs : BeginGet("c1", "Get", kind, ns, "web")
    \/ \E kind \in ReadKinds, ns \in NamespaceArgs, sel \in LabelSelectors :
          BeginList("c1", kind, ns, sel, <<>>)
    \/ \E p \in Callers : Resolve(p)
    \/ \E p \in Callers : Discover(p)
    \/ \E p \in Callers : Lock(p)
    \/ \E p \in Callers : Insert(p)
    \/ LiveGet("c1")
    \/ LiveList("c1")
    \/ \E p \in Callers : Return(p)
    \/ \E namespace \in {"", "demo"}, labelSelector \in LabelSelectors :
          GetEvents(namespace, labelSelector)
    \/ EventsLive
    \/ \E exists \in BOOLEAN : GetIngresses(exists, Ingresses, Ingresses, "")
    \/ ViewReturn
    \/ StartInformers
    \/ \E kind \in Kinds : InformerList(kind)

\* The whole client: both paths, and the informers following the writes.
Next ==
    \/ NextWrite
    \/ NextRead
    \/ NextSync
    \/ NextResolve
    \/ NextMutate
    \/ NextCancel
    \/ NextList
    \/ NextViews
    \/ NextTwin
    \/ NextMain
    \/ NextCollide
    \/ NextEvents
    \/ NextLocks
    \/ \E kind \in Kinds : InformerWatch(kind)

Spec == Init /\ [][Next]_vars

SpecWrite == Init /\ [][NextWrite]_vars

SpecRead == Init /\ [][NextRead]_vars

SpecSync == Init /\ [][NextSync]_vars

SpecResolve == Init /\ [][NextResolve]_vars

SpecMutate == InitLate /\ [][NextMutate]_vars

SpecCancel == Init /\ [][NextCancel]_vars

SpecList == InitList /\ [][NextList]_vars

SpecViews == Init /\ [][NextViews]_vars

SpecTwin == Init /\ [][NextTwin]_vars

SpecMain == InitMain /\ [][NextMain]_vars

SpecCollide == InitCollide /\ [][NextCollide]_vars

SpecEvents == InitEvents /\ [][NextEvents]_vars

SpecLocks == InitLocks /\ [][NextLocks]_vars

\* A request being served runs to its end, and a started informer's
\* goroutine keeps running.  Nothing makes a request arrive, and no code of
\* the server calls StartInformers: neither is fair.
SpecLive ==
    /\ Init
    /\ [][NextLive]_vars
    /\ WF_vars(Resolve("c1") \/ NsGet("c1") \/ NsCreate("c1") \/ Patch("c1")
                  \/ Create("c1"))
    /\ \A kind \in Kinds : WF_vars(InformerList(kind))
    /\ \A kind \in Kinds : WF_vars(InformerWatch(kind))

----------------------------------------------------------------------------
(* Properties.                                                             *)

Count(api, call) == Cardinality({i \in DOMAIN api : api[i].call = call})

Answered(api, call, res) == \E i \in DOMAIN api : api[i].call = call /\ api[i].res = res

\* The requests that left the client: Namespaces().Get("") is refused
\* before it is sent.
Sent(api) == {i \in DOMAIN api : api[i].res # "invalid"}

Finished(c, ops) == c.pc = "done" /\ c.op \in ops

\* The namespace step of an upsert did not end the call.
PastNamespaceStep(c) == ~(c.err = "upstream" /\ Count(c.api, "patch") = 0)

\* C1: an upsert whose kind resolves and whose manifest names the object
\* attempts exactly one merge-patch, issues a create if and only if that
\* patch answered not-found, and returns the object of the write that
\* succeeded; a second identical call in sequence ends in a successful patch
\* with no create and no error.
C1_PatchThenCreate ==
    \A p \in Callers :
        LET c == calls[p]
        IN  (Finished(c, Upserts) /\ c.kind \in DiscoveredKinds /\ c.name # ""
                /\ PastNamespaceStep(c))
            => /\ Count(c.api, "patch") = 1
               /\ Count(c.api, "create") = (IF Answered(c.api, "patch", "notfound") THEN 1 ELSE 0)
               /\ (Answered(c.api, "patch", "ok") \/ Answered(c.api, "create", "ok"))
                     => (c.err = "none" /\ c.obj.name = c.name)
               /\ (c.first = "none" /\ c.quiet)
                     => (Answered(c.api, "patch", "ok") /\ Count(c.api, "create") = 0
                         /\ c.err = "none")

\* C2: an upsert returns a nil error only if a patch or a create of this
\* call succeeded, and then it returns that write's object, never a nil or
\* empty one.
C2_SuccessOnlyAfterWrite ==
    \A p \in Callers :
        LET c == calls[p]
        IN  (Finished(c, Upserts) /\ c.err = "none")
            => /\ Answered(c.api, "patch", "ok") \/ Answered(c.api, "create", "ok")
               /\ c.obj # NoObj

\* C3: an upsert issued once more in sequence with the manifest unchanged
\* leaves the objects and the namespaces as the first call left them, and
\* after a first call that succeeded the second does not fail.
C3_UpsertIdempotent ==
    \A p \in Callers :
        LET c == calls[p]
        IN  (Finished(c, Upserts) /\ c.first # "" /\ c.quiet)
            => /\ namespaces = c.snap.namespaces
               /\ objects = c.snap.objects
               /\ c.first = "none" => c.err = "none"

\* C4: an upsert whose namespace create answers already-exists after its
\* own get answered not-found goes on to the name test and the patch.
C4_ToleratesConcurrentCreator ==
    \A p \in Callers :
        LET c == calls[p]
        IN  (Finished(c, Upserts) /\ Answered(c.api, "nsGet", "notfound")
                /\ Answered(c.api, "nsCreate", "exists"))
            => \/ c.name = "" /\ c.err = "invalid"
               \/ Count(c.api, "patch") = 1
               \/ c.err = "panic"

\* C5: while the manifest's name is empty an upsert sends no request to the
\* API server, neither a namespace get or create nor a patch or create.
C5_NoCallWithoutName ==
    \A p \in Callers :
        LET c == calls[p]
        IN  (c.op \in Upserts /\ c.name = "") => Sent(c.api) = {}

\* C6: a ListResources with a label or a field selector is answered by a
\* live list, whatever the kind's store holds.
C6_SelectorListIsLive ==
    \A p \in Callers :
        LET c == calls[p]
        IN  (Finished(c, {"List"}) /\ c.err = "none" /\ (c.sel # <<>> \/ c.fsel # <<>>))
            => (c.src = "live" /\ Count(c.api, "list") = 1)

\* C7: a get, describe or list is answered from a kind's store only when
\* that store's informer has synced.
C7_StoreOnlyWhenSynced ==
    \A p \in Callers :
        LET c == calls[p]
        IN  (Finished(c, {"Get", "Describe", "List"}) /\ c.src = "store")
            => informerSynced[c.kind]

\* C8: the key the read path builds for an object equals the key its store
\* indexes it by, so a get of an object the store holds is answered from the
\* store without a live get; otherwise exactly one live get is issued.
C8_GetServedFromStore ==
    \A p \in Callers :
        LET c == calls[p]
        IN  Finished(c, {"Get", "Describe"})
            => /\ c.held => (c.src = "store" /\ c.api = <<>>)
               /\ (~c.held /\ c.err # "kindnotfound") => Count(c.api, "get") = 1

\* C9: a get or describe of an object that neither the store nor the API
\* server holds returns the not-found error, with or without a namespace.
C9_MissingIsNotFound ==
    \A p \in Callers :
        LET c == calls[p]
        IN  (Finished(c, {"Get", "Describe"}) /\ Answered(c.api, "get", "notfound"))
            => c.err = "notfound"

\* C10: all the coordinates getCachedGVR has returned for a kind are one
\* and the same, whether the entry was registered by the fan-out or
\* inserted on a miss.
C10_ResolveStable ==
    \A kind \in Kinds : Cardinality(returned[kind]) <= 1

\* A kind inserted on a miss has since been answered from the cache while a
\* kind registered by the fan-out has been answered too.
C10_Witness ==
    /\ Finished(calls["c1"], {"Resolve"}) /\ calls["c1"].kind = "Scale" /\ calls["c1"].hit
    /\ Finished(calls["c2"], {"Resolve"}) /\ calls["c2"].kind = "Event" /\ calls["c2"].hit
    /\ returned["Scale"] # {} /\ returned["Event"] # {}

\* C11: no step of the client removes a key from the coordinate cache or
\* replaces the coordinate of a kind that has one, and a step that changes
\* the cache is taken by the caller holding the lock exclusively.
C11_EntriesNeverReplaced ==
    [][/\ \A kind \in Kinds :
             apiResourceCache[kind] # NoGVR
                => apiResourceCache'[kind] = apiResourceCache[kind]
       /\ apiResourceCache' # apiResourceCache
             => \E p \in Callers : cacheLock = p /\ calls'[p] # calls[p]]_vars

\* C12: an operation on a kind that no discovery entry carries ends with
\* the kind-not-found error, without a coordinate, without any API call and
\* without an entry for the kind in the coordinate cache.
C12_UnknownKindFails ==
    /\ apiResourceCache[UnknownKind] = NoGVR
    /\ \A p \in Callers :
          LET c == calls[p]
          IN  (c.pc = "done" /\ c.kind = UnknownKind)
              => (c.err = "kindnotfound" /\ c.gvr = NoGVR /\ c.api = <<>>)

\* C13: a getCachedGVR whose discovery call failed, altogether or for some
\* groups, returns the discovery-unavailable error and no coordinate, and
\* has not inserted into the coordinate cache.
C13_DiscoveryFailureReported ==
    \A p \in Callers :
        LET c == calls[p]
        IN  (Finished(c, {"Resolve"}) /\ c.seen.err \in {"group", "total"})
            => /\ c.err = "discoveryunavailable"
               /\ c.gvr = NoGVR
               /\ c.kind \notin DiscoveredKinds => apiResourceCache[c.kind] = NoGVR

\* The first entry of the lists whose Kind is exactly kind has coordinate gvr.
FirstMatch(lists, kind, gvr) ==
    \E i \in DOMAIN Flatten(lists) :
        /\ Flatten(lists)[i].kind = kind
        /\ Flatten(lists)[i].gvr = gvr
        /\ \A j \in 1..(i - 1) : Flatten(lists)[j].kind # kind

\* C14: a getCachedGVR that returns after a miss returns the coordinate of
\* the first entry, in the answer its discovery call got, whose Kind is
\* exactly the input, and the cache holds that coordinate as it returns; a
\* core kind gets the empty group and version v1.
C14_FirstExactMatch ==
    [][\A p \in Callers :
          (calls[p].pc = "insert" /\ calls'[p].pc = "done")
          => /\ calls'[p].err = "none"
             /\ FirstMatch(calls[p].seen.lists, calls[p].kind, calls'[p].gvr)
             /\ apiResourceCache'[calls[p].kind] = calls'[p].gvr
             /\ calls[p].kind = "Binding"
                   => calls'[p].gvr = [group |-> "", version |-> "v1",
                                       resource |-> "bindings"]]_vars

\* Both callers have resolved on a miss: one the kind with two entries, the
\* other the core kind; the miscased kind has no entry.
C14_Witness ==
    /\ Finished(calls["c1"], {"Resolve"}) /\ calls["c1"].kind = "Scale"
    /\ ~calls["c1"].hit /\ calls["c1"].err = "none"
    /\ calls["c1"].gvr = [group |-> "apps", version |-> "v1",
                          resource |-> "deployments/scale"]
    /\ Finished(calls["c2"], {"Resolve"}) /\ calls["c2"].kind = "Binding"
    /\ ~calls["c2"].hit /\ calls["c2"].err = "none"
    /\ apiResourceCache["Scale"] = calls["c1"].gvr
    /\ apiResourceCache[MiscasedKind] = NoGVR

\* C15: a kind has a store exactly when the discovery answer of the fan-out
\* has a resource of that Kind whose verbs contain both list and watch; a
\* kind without a store never has a synchronized flag that is true.
C15_StoreIffListAndWatch ==
    \A kind \in Kinds :
        /\ resourceCaches[kind].exists
              <=> \E i \in DOMAIN Flatten(ServerPreferredResources) :
                     /\ Flatten(ServerPreferredResources)[i].kind = kind
                     /\ {"list", "watch"} \subseteq Flatten(ServerPreferredResources)[i].verbs
        /\ ~resourceCaches[kind].exists
              => (~informerSynced[kind] /\ resourceCaches[kind].items = {})

\* The informers run: the kind with list and watch has a synced store that
\* holds the cluster's object, the kinds with list only, with neither verb
\* and the one resolved on a miss have none.
C15_Witness ==
    /\ started
    /\ informerSynced["Deployment"]
    /\ resourceCaches["Deployment"].items # {}
    /\ ~resourceCaches["ComponentStatus"].exists
    /\ ~resourceCaches["Binding"].exists
    /\ apiResourceCache["Scale"] # NoGVR /\ ~resourceCaches["Scale"].exists

\* C16: a get, describe or list of a kind whose watch had failed to
\* establish when the read began is answered by the live API, not by the
\* kind's store.
C16_FailedKindReadsLive ==
    \A p \in Callers :
        LET c == calls[p]
        IN  (Finished(c, {"Get", "Describe", "List"}) /\ c.cold) => c.src = "live"

\* C17: WaitForCacheSync has returned true only if every store the fan-out
\* registered has completed its initial list, and it returns false when the
\* context ends while one has not.
C17_ReadyMeansAllSynced ==
    /\ [](waitResult = "true"
            => \A kind \in Kinds : resourceCaches[kind].exists => informerSynced[kind])
    /\ [][\A cancelled \in BOOLEAN :
             (WaitForCacheSync(cancelled) /\ cancelled
                 /\ \E kind \in Kinds : resourceCaches[kind].exists /\ ~informerSynced[kind])
             => waitResult' = "false"]_vars

\* C18: the object a successful upsert returned is what the API server
\* holds as it returns, and after a successful upsert the store of the kind
\* eventually equals what the API server holds for it.
C18_StoreEventuallyFollows ==
    /\ [](\A p \in Callers :
             LET c == calls[p]
             IN  (Finished(c, {"UpsertYAML"}) /\ c.err = "none")
                 => ApiGet(objects, c.gvr, TargetNamespace(c), c.name).obj = c.obj)
    /\ \A p \in Callers :
          (Finished(calls[p], {"UpsertYAML"}) /\ calls[p].err = "none")
             ~> (resourceCaches["Deployment"].items
                    = {o \in objects : o.gvr = DeploymentsGVR})

WriteOps == Upserts \cup {"Delete", "Rollout"}

\* C19: a step of an upsert, a delete or a rollout restart leaves every
\* store, the set of stores and the synchronized flags as they are and is
\* never answered from a store; a store's content changes only in a step of
\* its started informer, to what the API server holds.
C19_WritesLeaveStoresAlone ==
    [][/\ \A p \in Callers :
             (calls'[p] # calls[p] /\ (calls[p].op \in WriteOps \/ calls'[p].op \in WriteOps))
             => /\ UNCHANGED <<resourceCaches, informerSynced, started>>
                /\ calls'[p].src = ""
       /\ \A kind \in Kinds :
             resourceCaches'[kind] # resourceCaches[kind]
             => /\ calls' = calls
                /\ started /\ resourceCaches[kind].exists
                /\ resourceCaches'[kind].items
                      = {o \in objects : o.gvr = apiResourceCache[kind]}]_vars

\* A delete has succeeded while the kind's synced store still holds the
\* deleted object: the watch has not delivered yet.
C19_Witness ==
    /\ Finished(calls["c1"], {"Delete"}) /\ calls["c1"].err = "none"
    /\ calls["c1"].kind = "Deployment"
    /\ informerSynced["Deployment"]
    /\ Holds(resourceCaches["Deployment"], calls["c1"].ns, calls["c1"].name)
    /\ Lookup(objects, DeploymentsGVR, calls["c1"].ns, calls["c1"].name) = {}

\* C20: a rollout restart of an existing object fails with the
\* unsupported-kind error when the object has no spec.template; when it has
\* one, exactly one patch is sent, the call succeeds and returns the object
\* with the restartedAt annotation stamped on, otherwise unchanged.
C20_RolloutRestart ==
    \A p \in Callers :
        LET c == calls[p]
        IN  (Finished(c, {"Rollout"}) /\ c.target # NoObj)
            => IF HasPodTemplate(c.target.gvr)
               THEN /\ c.err = "none"
                    /\ Count(c.api, "patch") = 1
                    /\ c.obj.restartedAt \in Timestamps
                    /\ c.obj = [c.target EXCEPT !.restartedAt = c.obj.restartedAt]
               ELSE c.err = "unsupportedkind" /\ c.obj = NoObj

\* C21: once the caller's ctx is cancelled, no step of the operation writes
\* to the cluster or makes the discovery round-trip, and the operation ends
\* with the cancelled error.
C21_CancelStopsTheOperation ==
    [][\A p \in Callers :
          (calls[p].cancelled /\ calls'[p] # calls[p])
             => /\ objects' = objects /\ namespaces' = namespaces
                /\ calls'[p].seen = calls[p].seen
                /\ (calls'[p].pc = "done" => calls'[p].err = "cancelled")]_vars

\* C22: a list with no selector that is answered from the store returns one
\* projection (name, kind, namespace, labels) for each stored object of the
\* requested namespace, or for every stored object when the namespace is
\* empty, and nothing else.
C22_StoreListIsTheNamespace ==
    [][\A p \in Callers :
          LET c == calls'[p]
              want == {o \in resourceCaches[c.kind].items : c.ns = "" \/ o.ns = c.ns}
          IN  (calls[p].pc = "idle" /\ c.op = "List" /\ c.src = "store"
                  /\ c.sel = <<>> /\ c.fsel = <<>>)
              => /\ \A o \in want :
                       \E r \in c.list : /\ r.name = o.name /\ r.namespace = o.ns
                                         /\ r.kind = c.kind /\ r.lables = o.app
                 /\ \A r \in c.list :
                       \E o \in want : /\ r.name = o.name /\ r.namespace = o.ns
                                       /\ r.kind = c.kind /\ r.lables = o.app
                 /\ Cardinality(c.list) = Cardinality(want)]_vars

\* A list of one namespace was answered from a store that also holds an
\* object of another namespace.
C22_Witness ==
    \E p \in Callers :
        LET c == calls[p]
        IN  /\ Finished(c, {"List"}) /\ c.src = "store" /\ c.sel = <<>> /\ c.ns = "demo"
            /\ Cardinality(c.list) = 2
            /\ \E o \in resourceCaches[c.kind].items : o.ns = "other"

\* The pieces that open a container's section of the aggregated string.
SectionStarts(out) == SelectSeq(out, LAMBDA x : x.piece \in {"header", "streamerror"})

\* C23: GetPodsLogs with no container name on a pod with several containers
\* returns success and one section per container, in container order, each
\* opened by a line naming the container; a container whose stream call
\* failed has the error line as its whole section, the others have their
\* header followed by their lines.
C23_OneSectionPerContainer ==
    (view.op = "Logs" /\ view.pc = "done" /\ view.container = "" /\ Len(view.pod) > 1)
    => /\ view.err = "none"
       /\ Len(SectionStarts(view.out)) = Len(view.pod)
       /\ \A k \in DOMAIN view.pod :
             /\ SectionStarts(view.out)[k].container = view.pod[k]
             /\ view.answers[k] = "streamerr"
                   => /\ SectionStarts(view.out)[k].piece = "streamerror"
                      /\ \A i \in DOMAIN view.out :
                            view.out[i].container = view.pod[k]
                               => view.out[i].piece = "streamerror"
             /\ view.answers[k] = "ok"
                   => \E i \in DOMAIN view.out :
                         /\ view.out[i] = Piece("header", view.pod[k])
                         /\ i < Len(view.out)
                         /\ view.out[i + 1] = Piece("lines", view.pod[k])

\* An aggregation over three containers ended: the stream of the second
\* failed and the two others answered.
C23_Witness ==
    /\ view.op = "Logs" /\ view.pc = "done" /\ view.container = ""
    /\ Len(view.pod) = 3
    /\ view.answers = <<"ok", "streamerr", "ok">>

\* C24: the tail-lines value of every log stream request is at most the
\* ceiling, and equals the requested length when that is at or below the
\* ceiling.
C24_TailLinesCeiling ==
    view.op = "Logs"
    => \A k \in DOMAIN view.reqs :
          /\ view.reqs[k].tailLines <= MaxTailLines
          /\ view.tail <= MaxTailLines => view.reqs[k].tailLines = view.tail

\* An aggregation asked for more lines than the ceiling has made its
\* per-container requests.
C24_Witness ==
    /\ view.op = "Logs" /\ view.pc = "done" /\ view.tail > MaxTailLines
    /\ Len(view.reqs) = 3

\* C25: GetIngresses(host) includes an ingress it iterates over if and only
\* if the ingress has no rule, or host is empty, or a rule's host equals
\* host; the tuples of an included ingress are exactly those of the
\* service-backed HTTP paths of its matching rules.
C25_IngressFilter ==
    (view.op = "Ingresses" /\ view.pc = "done")
    => /\ \A r \in view.list : \E ing \in view.items : r.name = ing.name
       /\ \A ing \in view.items :
             LET matching == {k \in DOMAIN ing.rules :
                                 view.host = "" \/ ing.rules[k].host = view.host}
                 backed == {kj \in matching \X (1..3) :
                               /\ ing.rules[kj[1]].hasHTTP
                               /\ kj[2] \in DOMAIN ing.rules[kj[1]].paths
                               /\ ing.rules[kj[1]].paths[kj[2]].service # NoService}
                 tuple(kj) ==
                     LET rule == ing.rules[kj[1]]
                         path == rule.paths[kj[2]]
                     IN  [host |-> rule.host, path |-> path.path,
                          serviceName |-> path.service.name,
                          portName |-> path.service.portName,
                          portNum |-> path.service.portNum]
                 got == {r \in view.list : r.name = ing.name /\ r.namespace = ing.ns}
             IN  /\ (got # {}) <=> (Len(ing.rules) = 0 \/ view.host = "" \/ matching # {})
                 /\ Cardinality(got) <= 1
                 /\ \A r \in got :
                       /\ {r.IngressPathInfo[i] : i \in DOMAIN r.IngressPathInfo}
                             = {tuple(kj) : kj \in backed}
                       /\ Len(r.IngressPathInfo) = Cardinality(backed)

\* A host filter was applied to the four ingresses: the one without rules
\* and the two with a matching rule are returned, the fourth is not.
C25_Witness ==
    /\ view.op = "Ingresses" /\ view.pc = "done" /\ view.host = "a.example"
    /\ view.items = Ingresses
    /\ {r.name : r \in view.list} = {"bare", "shop", "mixed"}

\* C26: GetAPIResources returns a discovered resource if and only if it is
\* namespaced and includeNamespaceScoped is true, or cluster-scoped and
\* includeClusterScoped is true.
C26_FlagsAreIndependent ==
    (view.op = "APIResources" /\ view.pc = "done" /\ view.err = "none")
    => view.resources =
          SelectSeq(AllResources(view.seen.lists),
                    LAMBDA r : \/ r.namespaced /\ view.includeNamespaceScoped
                               \/ ~r.namespaced /\ view.includeClusterScoped)

\* C28: once main has registered the tools, the read tools are registered;
\* with -safe-mode none of the write tools is, without it all four are.
C28_SafeModeHidesWrites ==
    server.pc = "serving"
    => /\ ReadTools \subseteq server.tools
       /\ server.args.safeMode = "true" => server.tools \cap WriteTools = {}
       /\ server.args.safeMode # "true" => WriteTools \subseteq server.tools

\* The server was started with -safe-mode and has registered its tools.
C28_Witness ==
    /\ server.pc = "serving" /\ server.args.safeMode = "true"
    /\ "getResource" \in server.tools

\* C29: the Prometheus tools are registered if and only if the parsed
\* -enable-prometheus is true and a client for the parsed -prometheus-url
\* was created; likewise the Loki tools.
C29_IntegrationsFollowFlags ==
    server.pc = "serving"
    => /\ PrometheusTools \subseteq server.tools
             <=> (server.enablePrometheus
                     /\ NewIntegrationClient(server.prometheusURL) # "nil")
       /\ LokiTools \subseteq server.tools
             <=> (server.enableLoki /\ NewIntegrationClient(server.lokiURL) # "nil")

WroteNothing(c) ==
    \A i \in DOMAIN c.api :
        ~(c.api[i].call \in {"nsCreate", "patch", "create"} /\ c.api[i].res = "ok")

\* C27: a JSON upsert and a YAML upsert of the same kind, namespace and
\* document that ran against the same cluster issue the same sequence of
\* API calls and return the same outcome.  Two calls that wrote nothing ran
\* against the same cluster.
C27_VariantsAgree ==
    \A p, q \in Callers :
        LET a == calls[p]
            b == calls[q]
        IN  (/\ Finished(a, {"UpsertJSON"}) /\ Finished(b, {"UpsertYAML"})
             /\ a.kind = b.kind /\ a.ns = b.ns /\ a.name = b.name
             /\ a.mns = b.mns /\ a.app = b.app
             /\ WroteNothing(a) /\ WroteNothing(b))
            => /\ a.api = b.api
               /\ a.err = b.err
               /\ a.obj = b.obj

\* C31: GetAPIResources returns an error whenever its discovery call
\* failed, whatever the failure.
C31_DiscoveryFailureIsAnError ==
    (view.op = "APIResources" /\ view.pc = "done" /\ view.seen.err # "none")
    => view.err # "none"

\* C32: a resolve that hits the coordinate cache issues no discovery call; a
\* resolve that misses issues exactly one, with no retry, and holds neither
\* the shared nor the exclusive cache lock while that call is in flight, so
\* that the lookup of another caller is not kept waiting by it.
C32_DiscoveryOutsideTheLock ==
    /\ [](\A p \in Callers :
            LET c == calls[p]
            IN  /\ (Finished(c, {"Resolve"}) /\ c.hit) => c.seen = NoAnswer
                /\ (Finished(c, {"Resolve"}) /\ ~c.hit) => c.seen # NoAnswer
                /\ c.pc = "discover" =>
                      /\ c.seen = NoAnswer
                      /\ cacheLock # p
                      /\ Holding(c.locks, "cacheLock") = 0
                      /\ \A q \in Callers \ {p} :
                            calls[q].pc = "resolve" => ENABLED Resolve(q))
    /\ [][\A p \in Callers :
            calls'[p].seen \notin {calls[p].seen, NoAnswer}
            => (calls[p].pc = "discover" /\ calls[p].seen = NoAnswer
                /\ calls'[p].pc # "discover")]_vars

\* One caller's resolve has missed and made its discovery call while the
\* other caller's resolve was answered by the cache.
C32_Witness ==
    \E p, q \in Callers :
        /\ Finished(calls[p], {"Resolve"}) /\ ~calls[p].hit
        /\ calls[p].seen # NoAnswer /\ calls[p].err = "none"
        /\ Finished(calls[q], {"Resolve"}) /\ calls[q].hit

\* C37: the namespace an upsert ensures is the namespace it writes into: when
\* the patch is about to be sent for a named object, the effective namespace
\* exists, whether it came from the parameter or from the manifest; and with
\* an empty effective namespace no namespace get or create has been sent.
C37_EnsuredNamespaceIsTheTarget ==
    \A p \in Callers :
        LET c == calls[p]
        IN  (c.op \in Upserts /\ c.pc = "patch" /\ c.name # "")
            => IF TargetNamespace(c) = ""
               THEN \A i \in Sent(c.api) : c.api[i].call \notin {"nsGet", "nsCreate"}
               ELSE TargetNamespace(c) \in namespaces

C35_StoreFollowsTheCachedCoordinate ==
    /\ \A kind \in Kinds :
          resourceCaches[kind].exists
          => /\ apiResourceCache[kind] # NoGVR
             /\ resourceCaches[kind].gvr = apiResourceCache[kind]
             /\ \A o \in resourceCaches[kind].items : o.gvr = apiResourceCache[kind]
    /\ \A p \in Callers :
          (calls[p].gvr # NoGVR /\ resourceCaches[calls[p].kind].exists)
          => calls[p].gvr = resourceCaches[calls[p].kind].gvr

\* The store of Event, a Kind served in two API groups, is filled while a
\* call on that kind was given its coordinate and went to the live API.
C35_Witness ==
    /\ Cardinality({i \in DOMAIN Flatten(ServerPreferredResources) :
                       Flatten(ServerPreferredResources)[i].kind = "Event"}) = 2
    /\ resourceCaches["Event"].items # {}
    /\ \E p \in Callers :
          /\ calls[p].kind = "Event" /\ calls[p].pc = "done"
          /\ calls[p].gvr # NoGVR /\ Count(calls[p].api, "patch") = 1

\* C34: a get or describe answered from a store returns the object of the
\* requested namespace and name.
C34_StoreAnswerIsTheRequestedObject ==
    \A p \in Callers :
        LET c == calls[p]
        IN  (Finished(c, {"Get", "Describe"}) /\ c.src = "store")
            => (c.obj.ns = c.ns /\ c.obj.name = c.name)

C39_EventsFromStore ==
    (view.op = "Events" /\ view.pc = "done")
    => /\ (view.labelSelector = <<>> /\ view.src = "store")
          => view.list = {EventEntry(o) :
                            o \in {x \in view.items :
                                      view.namespace = "" \/ x.ns = view.namespace}}
       /\ view.labelSelector # <<>> => view.src = "live"

\* Over the whole log a lock is released only while held and acquired only
\* while free, and at the end of the log it is free.
ReleasedOnce(log) ==
    \A m \in Mutexes :
        /\ \A i \in 0..Len(log) : Holding(SubSeq(log, 1, i), m) \in {0, 1}
        /\ Holding(log, m) = 0

====
